---- MODULE Spec2Model ----
(***************************************************************************)
(* State-machine model of the AI-Chat-TOC browser extension:               *)
(*   src/unnamed/part_000  - the UI module (PositionManager, DragManager,  *)
(*                           SearchManager, UI)                            *)
(*   src/Chrome/main.js    - the site adapters (getQueries, setupMonitor)  *)
(*                           and the throttle helper                       *)
(*                                                                         *)
(* Time is the value of Date.now() in milliseconds.  Timers fire exactly   *)
(* when they are due, in the order of their due time and then of their     *)
(* creation, as the event loop runs them.  Texts are sequences of          *)
(* one-character strings.  Coordinates are integers (CSS pixels).          *)
(***************************************************************************)
EXTENDS Integers, Sequences, FiniteSets, TLC

(***************************************************************************)
(* Program constants                                                       *)
(***************************************************************************)
PADDING == 10
MAX_QUERY_LENGTH == 70
TRUNCATE_SUFFIX == <<".", ".", ".">>
CollapsedSize == 48
DefaultExpandedWidth == 300
DefaultWidth == 300
DefaultHeight == 400
DefaultMarginRight == 40
DefaultTop == 60
Cooldown == 1000
DebounceDelay == 300
ThrottleLimit == 500
MouseThreshold == 3
TouchThreshold == 5
DedupPrefix == 100

Sites == {"chatgpt", "gemini", "perplexity", "claude"}

\* SITES.<site>.delays
Delays(s) ==
    CASE s = "chatgpt"    -> [pageLoad |-> 2000, promptSubmission |-> 500, chatChange |-> 1500, stateCheck |-> 5000]
      [] s = "gemini"     -> [pageLoad |-> 1500, promptSubmission |-> 500, chatChange |-> 1500, stateCheck |-> 5000]
      [] s = "perplexity" -> [pageLoad |-> 2000, promptSubmission |-> 200, chatChange |-> 1500, stateCheck |-> 5000]
      [] s = "claude"     -> [pageLoad |-> 2000, promptSubmission |-> 500, chatChange |-> 1500, stateCheck |-> 5000]

\* the count a poll tick requires the extracted queries to exceed
MinCount(s) == IF s = "perplexity" THEN 1 ELSE 0

(***************************************************************************)
(* Bounds of the model                                                     *)
(***************************************************************************)
StartTime == 1000
MaxGateTime == 3500
MaxPanelTime == 6500
MaxMonitorTime == 6500
MaxTimers == 3
MaxPanels == 2
MaxGateEvents == 2
MaxPanelEvents == 3
MaxMonitorEvents == 3
MaxViewport == 50
MaxSearchTime == 3500
MaxSearchEvents == 3
MaxNodes == 3
MaxInputTime == 3500
MaxInputEvents == 3
MaxPollTime == 11500
MaxPollEvents == 3
MaxDragTime == 3000
MaxDragEvents == 4
MaxTouches == 2
MaxWidths == 3
MaxSettleTime == 21500
MaxSettleEvents == 2
MaxActiveTime == 6000

(***************************************************************************)
(* State                                                                   *)
(***************************************************************************)
VARIABLES
    site,            \* the adapter the router chose
    now,             \* Date.now()
    lastCreateTime,  \* UI.lastCreateTime
    createTimer,     \* UI.createTimer: a timer id, 0 for null
    timers,          \* pending timeouts and intervals, in creation order
    hidden,          \* document.hidden
    href,            \* location.href
    lastUrl,         \* adapter.lastUrl
    lastQueryCount,  \* adapter.lastQueryCount
    inThrottle,      \* the flag of the throttled URL check
    dom,             \* the page's user-message elements, in document order
    doc,             \* the elements with id toc-extension in the document, in order
    el,              \* the panel elements that are still referenced: id -> element
    raf,             \* queued requestAnimationFrame callbacks (element ids)
    storePos,        \* localStorage[storageKey]: <<>> for absent, else <<x, y>>
    storeCollapsed,  \* localStorage[collapsedKey]: "unset", "true" or "false"
    innerWidth,      \* window.innerWidth
    innerHeight,     \* window.innerHeight
    toast,           \* the text of the last status message shown, <<>> for none
    arg,             \* the arguments of a call of constrainToViewport, <<>> when none
    res,             \* what that call returned, <<>> before it returns
    rt,              \* history: the position a drag-controller collapse started from
    reqs,            \* history: the monitor requests the pending debounce timer stands for
    budget,          \* history: the number of environment events still allowed
    ev               \* history: the handler that ran last (op), what createTOC did in it
                     \* (create), the requests a debounce callback stood for (n) and
                     \* whether a panel was in the document when createTOC was called (had)

vars == <<site, now, lastCreateTime, createTimer, timers, hidden, href, lastUrl,
          lastQueryCount, inThrottle, dom, doc, el, raf, storePos, storeCollapsed,
          innerWidth, innerHeight, toast, arg, res, rt, reqs, budget, ev>>

gateVars == <<lastCreateTime, createTimer, timers, reqs>>
monitorVars == <<href, lastUrl, lastQueryCount, inThrottle>>
panelVars == <<doc, el, raf>>
storeVars == <<storePos, storeCollapsed>>
viewVars == <<innerWidth, innerHeight>>

(***************************************************************************)
(* Text helpers (String.prototype.trim, toLowerCase, substring, replace)   *)
(***************************************************************************)
Max(a, b) == IF a > b THEN a ELSE b
Min(a, b) == IF a < b THEN a ELSE b
Abs(a) == IF a < 0 THEN 0 - a ELSE a

IsWs(c) == c \in {" ", "\n", "\t"}

\* the text without its leading / trailing white space
TrimLeft(s) ==
    IF \A i \in 1..Len(s) : IsWs(s[i]) THEN <<>>
    ELSE LET k == CHOOSE i \in 1..Len(s) : ~IsWs(s[i]) /\ \A j \in 1..(i - 1) : IsWs(s[j])
         IN  SubSeq(s, k, Len(s))

TrimRight(s) ==
    IF \A i \in 1..Len(s) : IsWs(s[i]) THEN <<>>
    ELSE LET k == CHOOSE i \in 1..Len(s) : ~IsWs(s[i]) /\ \A j \in (i + 1)..Len(s) : IsWs(s[j])
         IN  SubSeq(s, 1, k)

Trim(s) == TrimRight(TrimLeft(s))

\* s.replace(/\s+/g, " ")
\* every run of white space becomes one space: the two halves of the text
\* are done apart, and a run across the middle is joined
RECURSIVE CollapseWs(_)
CollapseWs(s) ==
    IF s = <<>> THEN <<>>
    ELSE IF Len(s) = 1 THEN (IF IsWs(s[1]) THEN <<" ">> ELSE s)
    ELSE LET m == Len(s) \div 2
             left == CollapseWs(SubSeq(s, 1, m))
             right == CollapseWs(SubSeq(s, m + 1, Len(s)))
         IN  IF left[Len(left)] = " " /\ right[1] = " " THEN left \o Tail(right)
             ELSE left \o right

LowerChar(c) ==
    CASE c = "A" -> "a" [] c = "B" -> "b" [] c = "H" -> "h" [] c = "E" -> "e"
      [] c = "L" -> "l" [] c = "O" -> "o" [] c = "T" -> "t" [] OTHER -> c

ToLowerCase(s) == [i \in 1..Len(s) |-> LowerChar(s[i])]

\* s.substring(a, b) for 0 <= a <= b
Substring(s, a, b) == SubSeq(s, a + 1, Min(b, Len(s)))

StartsWith(s, p) == Len(s) >= Len(p) /\ SubSeq(s, 1, Len(p)) = p

(***************************************************************************)
(* The page.  A user-message element is a record                           *)
(*   tier   : which of the adapter's selectors matches it (1 = the first;  *)
(*            for Gemini 1 = a container .user-message/.query and          *)
(*            2 = a .query-text-line node outside every container)         *)
(*   text   : its textContent                                              *)
(*   lines  : the textContent of its .query-text-line descendants          *)
(*   parent : its parentElement (a number)                                 *)
(*   prevLine : whether its previousElementSibling is a .query-text-line   *)
(* A query is [text, element], element being the index of the node in dom. *)
(***************************************************************************)
Indexed(d) == [i \in 1..Len(d) |-> [ix |-> i, e |-> d[i]]]

Matching(d, t) == SelectSeq(Indexed(d), LAMBDA n : n.e.tier = t)

\* the trimmed texts, the empty ones kept
TrimmedQueriesUnfiltered(nodes) ==
    [i \in 1..Len(nodes) |-> [text |-> Trim(nodes[i].e.text), element |-> nodes[i].ix]]

\* Array.from(elements).map(el => ({text: el.textContent.trim(), element: el})).filter(q => q.text)
TrimmedQueries(nodes) ==
    SelectSeq([i \in 1..Len(nodes) |-> [text |-> Trim(nodes[i].e.text), element |-> nodes[i].ix]],
              LAMBDA q : q.text # <<>>)

RECURSIVE JoinSpace(_)
JoinSpace(parts) ==
    IF parts = <<>> THEN <<>>
    ELSE IF Len(parts) = 1 THEN parts[1]
    ELSE parts[1] \o <<" ">> \o JoinSpace(Tail(parts))

GetQueriesChatGPT(d) == TrimmedQueries(Matching(d, 1))

GeminiContainerGroup(n) ==
    LET text == IF n.e.lines # <<>>
                THEN Trim(CollapseWs(JoinSpace(n.e.lines)))
                ELSE Trim(CollapseWs(n.e.text))
    IN  IF text # <<>> THEN <<[text |-> text, element |-> n.ix]>> ELSE <<>>

RECURSIVE GeminiContainerGroups(_)
GeminiContainerGroups(nodes) ==
    IF nodes = <<>> THEN <<>>
    ELSE GeminiContainerGroup(Head(nodes)) \o GeminiContainerGroups(Tail(nodes))

\* the index after the run of nodes that follow node i and share its parent
RECURSIVE RunEnd(_, _, _)
RunEnd(nodes, i, j) ==
    IF j <= Len(nodes) /\ nodes[j].e.parent = nodes[i].e.parent
    THEN RunEnd(nodes, i, j + 1)
    ELSE j

\* a fallback that makes a query of every line on its own
GeminiLineGroupsUnmerged(nodes, i) ==
    SelectSeq([k \in 1..Len(nodes) |->
                  [text |-> Trim(CollapseWs(nodes[k].e.text)), element |-> nodes[k].ix]],
              LAMBDA g : g.text # <<>>)

RECURSIVE GeminiLineGroups(_, _)
GeminiLineGroups(nodes, i) ==
    IF i > Len(nodes) THEN <<>>
    ELSE IF nodes[i].e.prevLine THEN GeminiLineGroups(nodes, i + 1)
    ELSE LET j == RunEnd(nodes, i, i + 1)
             parts == [k \in 1..(j - i) |-> nodes[i + k - 1].e.text]
             text == Trim(CollapseWs(JoinSpace(parts)))
         IN  (IF text # <<>> THEN <<[text |-> text, element |-> nodes[i].ix]>> ELSE <<>>)
             \o GeminiLineGroups(nodes, j)

GreetingToken == <<"h", "e", "l", "l", "o", ",">>

\* a filter that compares the texts as they are written
RECURSIVE GeminiFilterCaseSensitive(_, _)
GeminiFilterCaseSensitive(groups, seen) ==
    IF groups = <<>> THEN <<>>
    ELSE LET text == Head(groups).text
         IN  IF StartsWith(text, GreetingToken) \/ text \in seen
             THEN GeminiFilterCaseSensitive(Tail(groups), seen)
             ELSE <<Head(groups)>> \o GeminiFilterCaseSensitive(Tail(groups), seen \cup {text})

RECURSIVE GeminiFilter(_, _)
GeminiFilter(groups, seen) ==
    IF groups = <<>> THEN <<>>
    ELSE LET lower == ToLowerCase(Head(groups).text)
         IN  IF StartsWith(lower, GreetingToken) \/ lower \in seen
             THEN GeminiFilter(Tail(groups), seen)
             ELSE <<Head(groups)>> \o GeminiFilter(Tail(groups), seen \cup {lower})

GetQueriesGemini(d) ==
    LET containers == Matching(d, 1)
        groups == IF containers # <<>>
                  THEN GeminiContainerGroups(containers)
                  ELSE GeminiLineGroups(Matching(d, 2), 1)
    IN  GeminiFilter(groups, {})

GetQueriesPerplexity(d) ==
    LET queries == TrimmedQueries(Matching(d, 1))
    IN  IF queries = <<>> THEN TrimmedQueries(Matching(d, 2)) ELSE queries

NumClaudeSelectors == 4

RECURSIVE ClaudeSelect(_, _)
ClaudeSelect(d, t) ==
    IF t > NumClaudeSelectors THEN <<>>
    ELSE LET queries == TrimmedQueries(Matching(d, t))
         IN  IF queries # <<>> THEN queries ELSE ClaudeSelect(d, t + 1)

RECURSIVE ClaudeFilter(_, _)
ClaudeFilter(queries, seen) ==
    IF queries = <<>> THEN <<>>
    ELSE LET key == Substring(Head(queries).text, 0, DedupPrefix)
         IN  IF key \in seen
             THEN ClaudeFilter(Tail(queries), seen)
             ELSE <<Head(queries)>> \o ClaudeFilter(Tail(queries), seen \cup {key})

GetQueriesClaude(d) == ClaudeFilter(ClaudeSelect(d, 1), {})

GetQueries(s, d) ==
    CASE s = "chatgpt"    -> GetQueriesChatGPT(d)
      [] s = "gemini"     -> GetQueriesGemini(d)
      [] s = "perplexity" -> GetQueriesPerplexity(d)
      [] s = "claude"     -> GetQueriesClaude(d)

(***************************************************************************)
(* PositionManager                                                         *)
(***************************************************************************)
\* a clamp that keeps the padding only to the left and top edges
ConstrainNoPadding(x, y, elementWidth, elementHeight, W, H) ==
    LET padding == PADDING
        maxX == W - elementWidth
        maxY == H - elementHeight
    IN  [x |-> Max(padding, Min(x, maxX)), y |-> Max(padding, Min(y, maxY))]

\* a clamp that applies the upper end last
ConstrainUpperLast(x, y, elementWidth, elementHeight, W, H) ==
    LET padding == PADDING
        minX == padding
        minY == padding
        maxX == W - elementWidth - padding
        maxY == H - elementHeight - padding
    IN  [x |-> Min(Max(minX, x), maxX), y |-> Min(Max(minY, y), maxY)]

ConstrainToViewport(x, y, elementWidth, elementHeight, W, H) ==
    LET padding == PADDING
        minX == padding
        minY == padding
        maxX == W - elementWidth - padding
        maxY == H - elementHeight - padding
    IN  [x |-> Max(minX, Min(x, maxX)), y |-> Max(minY, Min(y, maxY))]

\* getSavedPosition: null when the key is absent
HasSavedPosition(sp) == sp # <<>>

\* getCollapsedState: false when the key is absent
GetCollapsedState(sc) == sc = "true"

\* applyPosition(element, x, y)
ApplyPosition(e, x, y) == [e EXCEPT !.positioned = TRUE, !.left = x, !.top = y]

(***************************************************************************)
(* Panel elements.  An element is a record                                 *)
(*   rows, footer       : the list rows and the footer text; a row is      *)
(*                        [num, text, title, target, shown]                *)
(*   searchValue, clearShown : the search input's value, and whether the   *)
(*                        clear button is displayed                        *)
(*   collapsed          : classList.contains("collapsed")                  *)
(*   positioned, left, top : whether applyPosition has set the style, and  *)
(*                        the left/top it set                              *)
(*   expandedWidth      : dataset.expandedWidth, 0 when not set            *)
(*   isDragging ... startElementY : the fields of its DragManager          *)
(*   mouseL, touchL     : whether its DragManager's document listeners     *)
(*                        for mouse and for touch are attached             *)
(***************************************************************************)
Range(f) == {f[i] : i \in DOMAIN f}

\* the panel's layout box, which the style sheet decides
PanelWidth == 300
PanelBaseHeight == 100
RowHeight == 40

\* offsetWidth / offsetHeight / getBoundingClientRect of element id when the
\* document holds the elements dc: an element outside the document has no box
OffsetWidth(e, id, dc) ==
    IF id \notin Range(dc) THEN 0
    ELSE IF e.collapsed THEN CollapsedSize ELSE PanelWidth

OffsetHeight(e, id, dc) ==
    IF id \notin Range(dc) THEN 0
    ELSE IF e.collapsed THEN CollapsedSize ELSE PanelBaseHeight + RowHeight * Len(e.rows)

RectLeft(e, id, dc) == IF id \notin Range(dc) THEN 0 ELSE e.left
RectTop(e, id, dc) == IF id \notin Range(dc) THEN 0 ELSE e.top

\* elements nothing refers to any more are dropped: an element stays while it
\* is in the document, while an animation-frame callback holds it, or while
\* its DragManager is dragging (its document listeners are attached)
Gc(els, dc, q) ==
    LET keep == {i \in DOMAIN els : i \in Range(dc) \/ i \in Range(q) \/ els[i].isDragging}
    IN  [i \in keep |-> els[i]]

(***************************************************************************)
(* UI: building the panel                                                  *)
(***************************************************************************)
ShortText(questionText) ==
    IF Len(questionText) > MAX_QUERY_LENGTH
    THEN Substring(questionText, 0, MAX_QUERY_LENGTH - 3) \o TRUNCATE_SUFFIX
    ELSE questionText

\* rows numbered from zero
PopulateZeroBased(questions) ==
    [i \in 1..Len(questions) |->
        [num |-> i - 1, text |-> ShortText(questions[i].text), title |-> questions[i].text,
         target |-> questions[i].element, shown |-> TRUE]]

PopulateTOCList(questions) ==
    [i \in 1..Len(questions) |->
        [num |-> i, text |-> ShortText(questions[i].text), title |-> questions[i].text,
         target |-> questions[i].element, shown |-> TRUE]]

FooterText(questions) == <<Len(questions), " queries">>

BuildTOCStructure(questions) ==
    [rows |-> PopulateTOCList(questions),
     footer |-> FooterText(questions),
     searchValue |-> <<>>, clearShown |-> FALSE,
     collapsed |-> FALSE,
     positioned |-> FALSE, left |-> 0, top |-> 0,
     expandedWidth |-> 0,
     isDragging |-> FALSE, hasMoved |-> FALSE, isClickOnToggle |-> FALSE,
     startX |-> 0, startY |-> 0, startElementX |-> 0, startElementY |-> 0,
     mouseL |-> FALSE, touchL |-> FALSE]

RestoreCollapsedState(e, sc) ==
    IF GetCollapsedState(sc) THEN [e EXCEPT !.collapsed = TRUE] ELSE e

\* a removal that removes nothing
RemoveNothing(dc) == dc

\* document.getElementById finds the first element with the id
RemoveExistingTOC(dc) == IF dc # <<>> THEN Tail(dc) ELSE dc

\* a check that never finds the extraction empty
NeverNoQuestions(questions) == Len(questions) < 0

\* questions.length === 0
NoQuestions(questions) == Len(questions) = 0

\* a gate that also refuses at exactly the cooldown
TooSoonInclusive(t, last) == t - last <= Cooldown

\* now - this.lastCreateTime < 1000
TooSoon(t, last) == t - last < Cooldown

FreeIds(els) == (1..MaxPanels) \ DOMAIN els

\* createTOC, called by handler op
CreateTOC(op) ==
    IF TooSoon(now, lastCreateTime)
    THEN /\ UNCHANGED <<lastCreateTime, doc, el, raf>>
         /\ ev' = [op |-> op, create |-> "dropped", n |-> IF op = "debounce" THEN reqs ELSE 0,
                   had |-> doc # <<>>]
    ELSE /\ lastCreateTime' = now
         /\ ev' = [op |-> op, create |-> "executed", n |-> IF op = "debounce" THEN reqs ELSE 0,
                   had |-> doc # <<>>]
         /\ LET removed == RemoveExistingTOC(doc)
                questions == GetQueries(site, dom)
                kept == Gc(el, removed, raf)
            IN  IF NoQuestions(questions)
                THEN /\ doc' = removed
                     /\ el' = kept
                     /\ raf' = raf
                ELSE /\ FreeIds(kept) # {}
                     /\ LET id == CHOOSE i \in FreeIds(kept) : \A j \in FreeIds(kept) : i <= j
                            tocContainer == RestoreCollapsedState(BuildTOCStructure(questions),
                                                                  storeCollapsed)
                        IN  /\ doc' = Append(removed, id)
                            /\ el' = [i \in DOMAIN kept \cup {id} |->
                                        IF i = id THEN tocContainer ELSE kept[i]]
                            /\ raf' = Append(raf, id)

\* animation-frame callbacks that place the panel and save nothing
RECURSIVE RunFramesUnsaved(_, _, _, _, _, _)
RunFramesUnsaved(q, els, sp, dc, W, H) ==
    IF q = <<>> THEN [els |-> els, sp |-> sp]
    ELSE LET id == Head(q)
             w0 == OffsetWidth(els[id], id, dc)
             h0 == OffsetHeight(els[id], id, dc)
             width == IF w0 # 0 THEN w0 ELSE DefaultWidth
             height == IF h0 # 0 THEN h0 ELSE DefaultHeight
             p == IF HasSavedPosition(sp)
                  THEN ConstrainToViewport(sp[1], sp[2], width, height, W, H)
                  ELSE [x |-> W - width - DefaultMarginRight, y |-> DefaultTop]
         IN  RunFramesUnsaved(Tail(q), [els EXCEPT ![id] = ApplyPosition(@, p.x, p.y)],
                              sp, dc, W, H)

\* the animation-frame callbacks of applyInitialPosition, run in order
RECURSIVE RunFrames(_, _, _, _, _, _)
RunFrames(q, els, sp, dc, W, H) ==
    IF q = <<>> THEN [els |-> els, sp |-> sp]
    ELSE LET id == Head(q)
             w0 == OffsetWidth(els[id], id, dc)
             h0 == OffsetHeight(els[id], id, dc)
             width == IF w0 # 0 THEN w0 ELSE DefaultWidth
             height == IF h0 # 0 THEN h0 ELSE DefaultHeight
             p == IF HasSavedPosition(sp)
                  THEN ConstrainToViewport(sp[1], sp[2], width, height, W, H)
                  ELSE [x |-> W - width - DefaultMarginRight, y |-> DefaultTop]
         IN  RunFrames(Tail(q), [els EXCEPT ![id] = ApplyPosition(@, p.x, p.y)],
                       <<p.x, p.y>>, dc, W, H)

(***************************************************************************)
(* Timers: setTimeout / clearTimeout / setInterval                         *)
(* A timer is [id, kind, due].  Ids of timers that are gone are used       *)
(* again, but never the id a stale handle still holds.                     *)
(***************************************************************************)
TimerIds(tms) == {tms[i].id : i \in DOMAIN tms}

NewTimerId(tms, handle) ==
    CHOOSE i \in 1..(Len(tms) + 2) :
        /\ i \notin TimerIds(tms) \cup {handle}
        /\ \A j \in 1..(Len(tms) + 2) : j \notin TimerIds(tms) \cup {handle} => i <= j

SetTimeout(tms, kind, delay, handle) ==
    Append(tms, [id |-> NewTimerId(tms, handle), kind |-> kind, due |-> now + delay])

ClearTimeout(tms, id) == SelectSeq(tms, LAMBDA t : t.id # id)

\* the index of the timer the event loop runs next: the earliest due, and of
\* those the one created first; 0 when none is due yet
NextDue(tms) ==
    LET dues == {i \in DOMAIN tms : tms[i].due <= now}
    IN  IF dues = {} THEN 0
        ELSE CHOOSE i \in dues :
                \A j \in dues : tms[i].due < tms[j].due \/ (tms[i].due = tms[j].due /\ i <= j)

Due(kind) == NextDue(timers) # 0 /\ timers[NextDue(timers)].kind = kind

WithoutNext(tms) ==
    LET k == NextDue(tms)
    IN  SubSeq(tms, 1, k - 1) \o SubSeq(tms, k + 1, Len(tms))

\* a debounce that waits twice the delay
DebouncedCreateTOCLate(g) ==
    LET cleared == IF g.createTimer # 0 THEN ClearTimeout(g.timers, g.createTimer)
                   ELSE g.timers
        id == NewTimerId(cleared, 0)
    IN  [timers |-> Append(cleared, [id |-> id, kind |-> "debounce",
                                     due |-> now + 2 * DebounceDelay]),
         createTimer |-> id]

\* a debounce that leaves the pending timer alone
DebouncedCreateTOCNoClear(g) ==
    LET id == NewTimerId(g.timers, 0)
    IN  [timers |-> Append(g.timers, [id |-> id, kind |-> "debounce",
                                      due |-> now + DebounceDelay]),
         createTimer |-> id]

\* a debounce that lets the pending timer stand and sets none beside it
DebouncedCreateTOCOnce(g) ==
    IF \E i \in DOMAIN g.timers : g.timers[i].id = g.createTimer /\ g.timers[i].kind = "debounce"
    THEN g
    ELSE LET id == NewTimerId(g.timers, 0)
         IN  [timers |-> Append(g.timers, [id |-> id, kind |-> "debounce",
                                           due |-> now + DebounceDelay]),
              createTimer |-> id]

\* debouncedCreateTOC on the gate g = [timers, createTimer]
DebouncedCreateTOC(g) ==
    LET cleared == IF g.createTimer # 0 THEN ClearTimeout(g.timers, g.createTimer)
                   ELSE g.timers
        id == NewTimerId(cleared, 0)
    IN  [timers |-> Append(cleared, [id |-> id, kind |-> "debounce", due |-> now + DebounceDelay]),
         createTimer |-> id]

\* onUpdate called n times in one handler
RECURSIVE OnUpdateTimes(_, _)
OnUpdateTimes(g, n) == IF n = 0 THEN g ELSE OnUpdateTimes(DebouncedCreateTOC(g), n - 1)

(***************************************************************************)
(* History variables                                                       *)
(***************************************************************************)
NoRt == [id |-> 0, x |-> 0, y |-> 0, w |-> 0, h |-> 0, done |-> FALSE]
NoCreate(op) == ev' = [op |-> op, create |-> "none", n |-> 0, had |-> FALSE]

\* the remembered collapse stays while that element stays in the document
\* where it was, in the same viewport, until the drag controller has expanded it
RtKeep ==
          IF /\ rt.id # 0
             /\ ~rt.done
             /\ rt.id \in Range(doc) /\ rt.id \in Range(doc')
             /\ rt.id \in DOMAIN el'
             /\ el'[rt.id].positioned = el[rt.id].positioned
             /\ el'[rt.id].left = el[rt.id].left
             /\ el'[rt.id].top = el[rt.id].top
             /\ el'[rt.id].expandedWidth = el[rt.id].expandedWidth
             /\ innerWidth' = innerWidth /\ innerHeight' = innerHeight
          THEN rt ELSE NoRt

RtNext == rt' = RtKeep

\* an environment event: one of the events the run still has
Spend == budget > 0 /\ budget' = budget - 1

\* the events of the user and of the page are sampled every EventGrid time
\* units, those of the monitor's sources at every instant the model visits
EventGrid == {500}

Sampled == Spend /\ \E g \in EventGrid : (now - StartTime) % g = 0

\* the timeouts pending, the monitor's interval aside
Pending(tms) == Len(SelectSeq(tms, LAMBDA t : t.kind # "poll"))

(***************************************************************************)
(* Time and the timers' callbacks                                          *)
(***************************************************************************)
\* the due time of the timer that is due first, `none` when no timer is pending
RECURSIVE EarliestDue(_, _)
EarliestDue(tms, none) ==
    IF tms = <<>> THEN none ELSE Min(Head(tms).due, EarliestDue(Tail(tms), none))

\* time passes, up to the next instant at which a timer is due or, every g
\* time units, the environment is sampled: no timer is overdue, and a visible
\* document has run its animation frame; the run ends at time `horizon`
Tick(g, horizon) ==
    /\ NextDue(timers) = 0
    /\ raf = <<>> \/ hidden
    /\ now' = Min(EarliestDue(timers, horizon + 1), now + g - ((now - StartTime) % g))
    /\ now' <= horizon
    /\ NoCreate("tick")
    /\ UNCHANGED <<arg, res, site, gateVars, hidden, monitorVars, dom, panelVars, storeVars,
                   viewVars, toast, budget>>
    /\ RtNext

\* the callback of delayedCreateTOC
FirePageLoad ==
    /\ Due("pageLoad")
    /\ timers' = WithoutNext(timers)
    /\ CreateTOC("pageLoad")
    /\ UNCHANGED <<arg, res, reqs, site, now, createTimer, hidden, monitorVars, dom, storeVars, viewVars,
                   toast, budget>>
    /\ RtNext

\* the callback handleDocumentClick / handleKeyDown scheduled
FireSubmit ==
    /\ Due("submit")
    /\ timers' = WithoutNext(timers)
    /\ CreateTOC("submit")
    /\ UNCHANGED <<arg, res, reqs, site, now, createTimer, hidden, monitorVars, dom, storeVars, viewVars,
                   toast, budget>>
    /\ RtNext

\* the callback of debouncedCreateTOC
FireDebounce ==
    /\ Due("debounce")
    /\ timers' = WithoutNext(timers)
    /\ CreateTOC("debounce")
    /\ reqs' = 0
    /\ UNCHANGED <<arg, res, site, now, createTimer, hidden, monitorVars, dom, storeVars, viewVars,
                   toast, budget>>
    /\ RtNext

\* setTimeout(onUpdate, delays.chatChange) of the monitor
FireChatChange ==
    /\ Due("chatChange")
    /\ LET g == DebouncedCreateTOC([timers |-> WithoutNext(timers), createTimer |-> createTimer])
       IN  timers' = g.timers /\ createTimer' = g.createTimer
    /\ reqs' = reqs + 1
    /\ NoCreate("chatChange")
    /\ UNCHANGED <<arg, res, site, now, lastCreateTime, hidden, monitorVars, dom, panelVars,
                   storeVars, viewVars, toast, budget>>
    /\ RtNext

\* setTimeout(() => inThrottle = false, limit)
FireThrottle ==
    /\ Due("throttle")
    /\ timers' = WithoutNext(timers)
    /\ inThrottle' = FALSE
    /\ NoCreate("throttle")
    /\ UNCHANGED <<arg, res, reqs, site, now, lastCreateTime, createTimer, hidden, href, lastUrl,
                   lastQueryCount, dom, panelVars, storeVars, viewVars, toast, budget>>
    /\ RtNext

\* the animation frame: every queued applyInitialPosition callback runs
AnimationFrame ==
    /\ raf # <<>>
    /\ ~hidden
    /\ LET r == RunFrames(raf, el, storePos, doc, innerWidth, innerHeight)
       IN  /\ el' = Gc(r.els, doc, <<>>)
           /\ storePos' = r.sp
    /\ raf' = <<>>
    /\ NoCreate("frame")
    /\ UNCHANGED <<arg, res, site, now, gateVars, hidden, monitorVars, dom, doc, storeCollapsed,
                   viewVars, toast, budget>>
    /\ RtNext

(***************************************************************************)
(* The adapters' monitors (setupMonitor)                                   *)
(***************************************************************************)
\* a poll tick that asks of every adapter that the count exceed 0
PollTickMinZero(s, tocExists, currentQueries, lqc) ==
    IF ~tocExists /\ currentQueries > 0
    THEN [lqc |-> IF s \in {"gemini", "claude"} THEN currentQueries ELSE lqc,
          updates |-> 1, remove |-> FALSE]
    ELSE IF currentQueries # lqc /\ currentQueries > 0
    THEN [lqc |-> currentQueries, updates |-> 1, remove |-> FALSE]
    ELSE [lqc |-> IF s = "gemini" THEN currentQueries ELSE lqc, updates |-> 0,
          remove |-> s = "gemini" /\ tocExists /\ currentQueries # lqc]

\* a poll tick that asks for a rebuild whenever there are queries to list
PollTickAlways(s, tocExists, currentQueries, lqc) ==
    IF currentQueries > MinCount(s)
    THEN [lqc |-> currentQueries, updates |-> 1, remove |-> FALSE]
    ELSE [lqc |-> lqc, updates |-> 0, remove |-> FALSE]

\* a poll tick that asks for a rebuild only when a panel is there
PollTickPanelOnly(s, tocExists, currentQueries, lqc) ==
    IF tocExists /\ currentQueries # lqc /\ currentQueries > MinCount(s)
    THEN [lqc |-> currentQueries, updates |-> 1, remove |-> FALSE]
    ELSE [lqc |-> lqc, updates |-> 0, remove |-> FALSE]

\* a poll tick that never records the count
PollTickNoRecord(s, tocExists, currentQueries, lqc) ==
    LET min == IF s = "perplexity" THEN 1 ELSE 0
        first == ~tocExists /\ currentQueries > min
        second == currentQueries # lqc /\ currentQueries > min /\ (s = "chatgpt" => tocExists)
    IN  [lqc |-> lqc,
         updates |-> IF s = "perplexity"
                     THEN (IF first THEN 1 ELSE 0) + (IF second THEN 1 ELSE 0)
                     ELSE IF first \/ second THEN 1 ELSE 0,
         remove |-> s = "gemini" /\ tocExists /\ currentQueries = 0 /\ lqc # 0]

\* one poll tick of adapter s with the tab visible: the new lastQueryCount,
\* how many times onUpdate is called, whether the panel is removed directly
PollTick(s, tocExists, currentQueries, lqc) ==
    CASE s = "chatgpt" ->
            IF ~tocExists /\ currentQueries > 0
            THEN [lqc |-> lqc, updates |-> 1, remove |-> FALSE]
            ELSE IF tocExists /\ currentQueries # lqc /\ currentQueries > 0
            THEN [lqc |-> currentQueries, updates |-> 1, remove |-> FALSE]
            ELSE [lqc |-> lqc, updates |-> 0, remove |-> FALSE]
      [] s = "gemini" ->
            IF ~tocExists /\ currentQueries > 0
            THEN [lqc |-> currentQueries, updates |-> 1, remove |-> FALSE]
            ELSE IF currentQueries # lqc
            THEN IF currentQueries > 0
                 THEN [lqc |-> currentQueries, updates |-> 1, remove |-> FALSE]
                 ELSE [lqc |-> currentQueries, updates |-> 0, remove |-> tocExists]
            ELSE [lqc |-> lqc, updates |-> 0, remove |-> FALSE]
      [] s = "perplexity" ->
            LET first == IF ~tocExists /\ currentQueries > 1 THEN 1 ELSE 0
            IN  IF currentQueries # lqc /\ currentQueries > 1
                THEN [lqc |-> currentQueries, updates |-> first + 1, remove |-> FALSE]
                ELSE [lqc |-> lqc, updates |-> first, remove |-> FALSE]
      [] s = "claude" ->
            IF ~tocExists /\ currentQueries > 0
            THEN [lqc |-> currentQueries, updates |-> 1, remove |-> FALSE]
            ELSE IF currentQueries # lqc /\ currentQueries > 0
            THEN [lqc |-> currentQueries, updates |-> 1, remove |-> FALSE]
            ELSE [lqc |-> lqc, updates |-> 0, remove |-> FALSE]

\* the interval timer with its due time moved on by the interval
Rearm(tms, k, interval) == [tms EXCEPT ![k].due = @ + interval]

\* the setInterval callback of the monitor
FirePoll ==
    /\ Due("poll")
    /\ LET k == NextDue(timers)
           rearmed == Rearm(timers, k, Delays(site).stateCheck)
       IN  IF hidden
           THEN /\ timers' = rearmed
                /\ UNCHANGED <<createTimer, reqs, lastQueryCount, doc, el>>
           ELSE LET r == PollTick(site, doc # <<>>, Len(GetQueries(site, dom)), lastQueryCount)
                    g == OnUpdateTimes([timers |-> rearmed, createTimer |-> createTimer],
                                       r.updates)
                IN  /\ timers' = g.timers
                    /\ createTimer' = g.createTimer
                    /\ reqs' = reqs + r.updates
                    /\ lastQueryCount' = r.lqc
                    /\ doc' = IF r.remove THEN RemoveExistingTOC(doc) ELSE doc
                    /\ el' = Gc(el, doc', raf)
    /\ NoCreate("poll")
    /\ UNCHANGED <<arg, res, site, now, lastCreateTime, hidden, href, lastUrl, inThrottle, dom, raf,
                   storeVars, viewVars, toast, budget>>
    /\ RtNext

\* a URL check that leaves lastQueryCount as it is
UrlCheckNoReset(g, url) ==
    IF ~hidden /\ href # url
    THEN [timers |-> SetTimeout(g.timers, "chatChange", Delays(site).chatChange, g.createTimer),
          lastUrl |-> href, lqc |-> lastQueryCount]
    ELSE [timers |-> g.timers, lastUrl |-> url, lqc |-> lastQueryCount]

\* the URL check inside the throttle
UrlCheck(g, url) ==
    IF ~hidden /\ href # url
    THEN [timers |-> SetTimeout(g.timers, "chatChange", Delays(site).chatChange, g.createTimer),
          lastUrl |-> href, lqc |-> 0]
    ELSE [timers |-> g.timers, lastUrl |-> url, lqc |-> lastQueryCount]

\* a MutationObserver callback that runs the check whatever the throttle's state
MutationUnthrottled ==
    /\ Spend
    /\ Pending(timers) + 2 <= MaxTimers
    /\ LET c == UrlCheck([timers |-> timers, createTimer |-> createTimer], lastUrl)
       IN  /\ lastUrl' = c.lastUrl
           /\ lastQueryCount' = c.lqc
           /\ inThrottle' = TRUE
           /\ timers' = IF inThrottle THEN c.timers
                        ELSE SetTimeout(c.timers, "throttle", ThrottleLimit, createTimer)
    /\ NoCreate("mutation")
    /\ UNCHANGED <<arg, res, reqs, site, now, lastCreateTime, createTimer, hidden, href, dom, panelVars,
                   storeVars, viewVars, toast>>
    /\ RtNext

\* a MutationObserver callback: TOC_PERF.throttle(check, 500)
Mutation ==
    /\ Spend
    /\ Pending(timers) + 2 <= MaxTimers
    /\ IF ~inThrottle
       THEN LET c == UrlCheck([timers |-> timers, createTimer |-> createTimer], lastUrl)
            IN  /\ lastUrl' = c.lastUrl
                /\ lastQueryCount' = c.lqc
                /\ inThrottle' = TRUE
                /\ timers' = SetTimeout(c.timers, "throttle", ThrottleLimit, createTimer)
       ELSE UNCHANGED <<lastUrl, lastQueryCount, inThrottle, timers>>
    /\ NoCreate("mutation")
    /\ UNCHANGED <<arg, res, reqs, site, now, lastCreateTime, createTimer, hidden, href, dom, panelVars,
                   storeVars, viewVars, toast>>
    /\ RtNext

Urls == {"/c/1", "/c/2"}

\* the popstate listener, which only the ChatGPT adapter installs; the
\* history entry the browser moved to may have another URL
Popstate ==
    /\ Spend
    /\ Pending(timers) < MaxTimers
    /\ site = "chatgpt"
    /\ \E u \in Urls : href' = u
    /\ lastQueryCount' = 0
    /\ timers' = SetTimeout(timers, "chatChange", Delays(site).chatChange, createTimer)
    /\ NoCreate("popstate")
    /\ UNCHANGED <<arg, res, reqs, site, now, lastCreateTime, createTimer, hidden, lastUrl, inThrottle, dom,
                   panelVars, storeVars, viewVars, toast>>
    /\ RtNext

(***************************************************************************)
(* The environment: the page and the browser                               *)
(***************************************************************************)
Msg(t) == [tier |-> 1, text |-> t, lines |-> <<>>, parent |-> 0, prevLine |-> FALSE]

LongText == [i \in 1..(MAX_QUERY_LENGTH + 1) |-> "a"]

Doms == { <<>>,
          <<Msg(<<" ">>), Msg(<<"h", "i">>)>>,
          <<Msg(LongText), Msg(<<" ", "a", "b", " ">>), Msg(<<"b">>)>> }

\* the page routes to another conversation (pushState): no event of its own
Navigate ==
    /\ Sampled
    /\ \E u \in Urls \ {href} : href' = u
    /\ NoCreate("navigate")
    /\ UNCHANGED <<arg, res, site, now, gateVars, hidden, lastUrl, lastQueryCount, inThrottle, dom,
                   panelVars, storeVars, viewVars, toast>>
    /\ RtNext

\* the page renders other messages
DomChange ==
    /\ Sampled
    /\ \E d \in Doms \ {dom} : dom' = d
    /\ NoCreate("dom")
    /\ UNCHANGED <<arg, res, site, now, gateVars, hidden, monitorVars, panelVars, storeVars,
                   viewVars, toast>>
    /\ RtNext

\* the tab is hidden or shown
VisibilityChange ==
    /\ Sampled
    /\ hidden' = ~hidden
    /\ NoCreate("visibility")
    /\ UNCHANGED <<arg, res, site, now, gateVars, monitorVars, dom, panelVars, storeVars, viewVars,
                   toast>>
    /\ RtNext

(***************************************************************************)
(* DragManager                                                             *)
(* The operators work on one element e (with id `id`) and return the       *)
(* element together with the store: [e, sp, sc].                           *)
(***************************************************************************)
\* a toggle that expands without giving the collapsed size back
ToggleCollapseNoOffset(e, id, isExpanding, dc, W, H, sp, sc) ==
    LET currentX == RectLeft(e, id, dc)
        currentY == RectTop(e, id, dc)
    IN  IF ~isExpanding
        THEN LET expandedWidth == OffsetWidth(e, id, dc)
                 newX == currentX + expandedWidth - CollapsedSize
             IN  [e |-> ApplyPosition([e EXCEPT !.expandedWidth = expandedWidth,
                                                !.collapsed = TRUE], newX, currentY),
                  sp |-> <<newX, currentY>>,
                  sc |-> "true"]
        ELSE LET expandedWidth == IF e.expandedWidth # 0 THEN e.expandedWidth
                                  ELSE DefaultExpandedWidth
                 newX == currentX - expandedWidth
                 expanded == [e EXCEPT !.collapsed = FALSE]
                 constrained == ConstrainToViewport(newX, currentY, expandedWidth,
                                                    OffsetHeight(expanded, id, dc), W, H)
             IN  [e |-> ApplyPosition(expanded, constrained.x, constrained.y),
                  sp |-> <<constrained.x, constrained.y>>,
                  sc |-> "false"]

\* an expansion that takes the default width whatever was remembered
ToggleCollapseForgetful(e, id, isExpanding, dc, W, H, sp, sc) ==
    LET currentX == RectLeft(e, id, dc)
        currentY == RectTop(e, id, dc)
    IN  IF ~isExpanding
        THEN LET expandedWidth == OffsetWidth(e, id, dc)
                 newX == currentX + expandedWidth - CollapsedSize
             IN  [e |-> ApplyPosition([e EXCEPT !.expandedWidth = expandedWidth,
                                                !.collapsed = TRUE], newX, currentY),
                  sp |-> <<newX, currentY>>,
                  sc |-> "true"]
        ELSE LET expandedWidth == DefaultExpandedWidth
                 newX == currentX - (expandedWidth - CollapsedSize)
                 expanded == [e EXCEPT !.collapsed = FALSE]
                 constrained == ConstrainToViewport(newX, currentY, expandedWidth,
                                                    OffsetHeight(expanded, id, dc), W, H)
             IN  [e |-> ApplyPosition(expanded, constrained.x, constrained.y),
                  sp |-> <<constrained.x, constrained.y>>,
                  sc |-> "false"]

ToggleCollapse(e, id, isExpanding, dc, W, H, sp, sc) ==
    LET currentX == RectLeft(e, id, dc)
        currentY == RectTop(e, id, dc)
        collapsedSize == CollapsedSize
    IN  IF ~isExpanding
        THEN LET expandedWidth == OffsetWidth(e, id, dc)
                 newX == currentX + expandedWidth - collapsedSize
             IN  [e |-> ApplyPosition([e EXCEPT !.expandedWidth = expandedWidth,
                                                !.collapsed = TRUE], newX, currentY),
                  sp |-> <<newX, currentY>>,
                  sc |-> "true"]
        ELSE LET expandedWidth == IF e.expandedWidth # 0 THEN e.expandedWidth
                                  ELSE DefaultExpandedWidth
                 newX == currentX - (expandedWidth - collapsedSize)
                 expanded == [e EXCEPT !.collapsed = FALSE]
                 constrained == ConstrainToViewport(newX, currentY, expandedWidth,
                                                    OffsetHeight(expanded, id, dc), W, H)
             IN  [e |-> ApplyPosition(expanded, constrained.x, constrained.y),
                  sp |-> <<constrained.x, constrained.y>>,
                  sc |-> "false"]

\* the part startDrag and touchStart share, after the check of the target
BeginDrag(e, id, dc, isToggleBtn, clientX, clientY) ==
    LET startElementX == RectLeft(e, id, dc)
        startElementY == RectTop(e, id, dc)
    IN  ApplyPosition([e EXCEPT !.isDragging = TRUE, !.hasMoved = FALSE,
                                !.isClickOnToggle = isToggleBtn,
                                !.startX = clientX, !.startY = clientY,
                                !.startElementX = startElementX,
                                !.startElementY = startElementY],
                      startElementX, startElementY)

\* a press that begins a drag wherever it lands
StartDragAlways(e, id, dc, touch, isToggleBtn, isExportBtn, clientX, clientY, W, H, sp, sc) ==
    [e |-> IF touch
           THEN [BeginDrag(e, id, dc, isToggleBtn, clientX, clientY) EXCEPT !.touchL = TRUE]
           ELSE [BeginDrag(e, id, dc, isToggleBtn, clientX, clientY) EXCEPT !.mouseL = TRUE],
     sp |-> sp, sc |-> sc]

\* startDrag (touch = FALSE) and touchStart (touch = TRUE) with one finger
StartDrag(e, id, dc, touch, isToggleBtn, isExportBtn, clientX, clientY, W, H, sp, sc) ==
    IF touch /\ isExportBtn
    THEN [e |-> e, sp |-> sp, sc |-> sc]
    ELSE IF isToggleBtn /\ ~e.collapsed
    THEN ToggleCollapse(e, id, FALSE, dc, W, H, sp, sc)
    ELSE [e |-> IF touch
                THEN [BeginDrag(e, id, dc, isToggleBtn, clientX, clientY) EXCEPT !.touchL = TRUE]
                ELSE [BeginDrag(e, id, dc, isToggleBtn, clientX, clientY) EXCEPT !.mouseL = TRUE],
          sp |-> sp, sc |-> sc]

Threshold(touch) == IF touch THEN TouchThreshold ELSE MouseThreshold

\* a move that is applied whether or not a drag is on
DragWhileIdle(e, id, dc, touch, touches, clientX, clientY, W, H) ==
    IF touch /\ touches # 1 THEN e
    ELSE LET deltaX == clientX - e.startX
             deltaY == clientY - e.startY
         IN  IF ~e.hasMoved /\ Abs(deltaX) < Threshold(touch) /\ Abs(deltaY) < Threshold(touch)
             THEN e
             ELSE LET newX == e.startElementX + deltaX
                      newY == e.startElementY + deltaY
                      constrained == ConstrainToViewport(newX, newY, OffsetWidth(e, id, dc),
                                                         OffsetHeight(e, id, dc), W, H)
                  IN  ApplyPosition([e EXCEPT !.hasMoved = TRUE], constrained.x, constrained.y)

\* a move that is held against the threshold whatever came before
DragUnlatched(e, id, dc, touch, touches, clientX, clientY, W, H) ==
    IF ~e.isDragging \/ (touch /\ touches # 1) THEN e
    ELSE LET deltaX == clientX - e.startX
             deltaY == clientY - e.startY
         IN  IF Abs(deltaX) < Threshold(touch) /\ Abs(deltaY) < Threshold(touch)
             THEN e
             ELSE LET newX == e.startElementX + deltaX
                      newY == e.startElementY + deltaY
                      constrained == ConstrainToViewport(newX, newY, OffsetWidth(e, id, dc),
                                                         OffsetHeight(e, id, dc), W, H)
                  IN  ApplyPosition([e EXCEPT !.hasMoved = TRUE], constrained.x, constrained.y)

\* drag (touch = FALSE) and touchDrag (touch = TRUE, touches fingers on the
\* screen; clientX and clientY are those of the first)
Drag(e, id, dc, touch, touches, clientX, clientY, W, H) ==
    IF ~e.isDragging \/ (touch /\ touches # 1) THEN e
    ELSE LET deltaX == clientX - e.startX
             deltaY == clientY - e.startY
         IN  IF ~e.hasMoved /\ Abs(deltaX) < Threshold(touch) /\ Abs(deltaY) < Threshold(touch)
             THEN e
             ELSE LET newX == e.startElementX + deltaX
                      newY == e.startElementY + deltaY
                      constrained == ConstrainToViewport(newX, newY, OffsetWidth(e, id, dc),
                                                         OffsetHeight(e, id, dc), W, H)
                  IN  ApplyPosition([e EXCEPT !.hasMoved = TRUE], constrained.x, constrained.y)

\* stopDrag (touch = FALSE) and touchEnd (touch = TRUE)
StopDrag(e, id, dc, touch, W, H, sp, sc) ==
    IF ~e.isDragging THEN [e |-> e, sp |-> sp, sc |-> sc]
    ELSE LET stopped == [e EXCEPT !.isDragging = FALSE]
             saved == <<RectLeft(e, id, dc), RectTop(e, id, dc)>>
             r == IF ~e.hasMoved /\ e.isClickOnToggle
                  THEN ToggleCollapse(stopped, id, TRUE, dc, W, H, saved, sc)
                  ELSE [e |-> stopped, sp |-> saved, sc |-> sc]
         IN  [e |-> IF touch THEN [r.e EXCEPT !.touchL = FALSE]
                    ELSE [r.e EXCEPT !.mouseL = FALSE],
              sp |-> r.sp, sc |-> r.sc]

\* where a press lands inside the header, relative to the panel's corner
Grabs == {<<5, 5>>}
\* where later pointer events are, relative to the press
Moves == {<<2, 0>>, <<0, 4>>, <<500, 500>>}

\* the part of the header a press lands on: the drag handle and the title,
\* the collapse/expand button, the export button
Targets == {"handle", "toggle", "export"}

\* a press on the header of panel id, at g from the panel's corner
PressOn(touch, id, target, g) ==
    /\ Sampled
    /\ ~hidden
    /\ UNCHANGED <<site, now, gateVars, hidden, monitorVars, dom, doc, raf, viewVars, toast>>
    /\ el[id].positioned
    /\ \A i \in DOMAIN el : IF touch THEN ~el[i].touchL ELSE ~el[i].mouseL
    /\ LET isToggleBtn == target = "toggle"
           r == StartDrag(el[id], id, doc, touch, isToggleBtn, target = "export",
                          el[id].left + g[1], el[id].top + g[2],
                          innerWidth, innerHeight, storePos, storeCollapsed)
       IN  /\ el' = [el EXCEPT ![id] = r.e]
           /\ storePos' = r.sp
           /\ storeCollapsed' = r.sc
           /\ rt' = IF isToggleBtn /\ ~el[id].collapsed
                    THEN [id |-> id, x |-> el[id].left, y |-> el[id].top,
                          w |-> OffsetWidth(el[id], id, doc),
                          h |-> OffsetHeight(el[id], id, doc), done |-> FALSE]
                    ELSE RtKeep
    /\ NoCreate(IF touch THEN "touchStart" ELSE "startDrag")

Press(touch) ==
    \E id \in Range(doc), target \in {"handle", "toggle"}, g \in Grabs :
        PressOn(touch, id, target, g) /\ UNCHANGED <<arg, res>>

\* mousedown on the header
MouseDown == \E touch \in {FALSE} : Press(touch)

\* touchstart on the header with one finger, not on the export button
TouchStart == \E touch \in {TRUE} : Press(touch)

\* a move of the pointer to m from where the press was, which the listener
\* of panel id's DragManager receives
MoveOn(touch, touches, id, m) ==
    /\ Sampled
    /\ ~hidden
    /\ IF touch THEN el[id].touchL ELSE el[id].mouseL
    /\ el' = [el EXCEPT ![id] = Drag(@, id, doc, touch, touches, @.startX + m[1],
                                     @.startY + m[2], innerWidth, innerHeight)]
    /\ NoCreate(IF touch THEN "touchDrag" ELSE "drag")
    /\ UNCHANGED <<site, now, gateVars, hidden, monitorVars, dom, doc, raf, storeVars,
                   viewVars, toast>>
    /\ RtNext

PointerMove(touch) ==
    \E id \in DOMAIN el, m \in Moves : MoveOn(touch, 1, id, m) /\ UNCHANGED <<arg, res>>

\* mousemove on the document
MouseMove == \E touch \in {FALSE} : PointerMove(touch)

\* touchmove on the document with one finger
TouchMove == \E touch \in {TRUE} : PointerMove(touch)

\* a release of the pointer, which the listener of panel id's DragManager
\* receives
ReleaseOn(touch, id) ==
    /\ Sampled
    /\ ~hidden
    /\ UNCHANGED <<site, now, gateVars, hidden, monitorVars, dom, doc, raf, viewVars, toast>>
    /\ IF touch THEN el[id].touchL ELSE el[id].mouseL
    /\ LET r == StopDrag(el[id], id, doc, touch, innerWidth, innerHeight,
                         storePos, storeCollapsed)
       IN  /\ el' = Gc([el EXCEPT ![id] = r.e], doc, raf)
           /\ storePos' = r.sp
           /\ storeCollapsed' = r.sc
           /\ rt' = IF /\ rt.id = id /\ ~rt.done /\ id \in Range(doc)
                       /\ el[id].collapsed /\ ~r.e.collapsed
                    THEN [rt EXCEPT !.done = TRUE]
                    ELSE RtKeep
    /\ NoCreate(IF touch THEN "touchEnd" ELSE "stopDrag")

Release(touch) == \E id \in DOMAIN el : ReleaseOn(touch, id) /\ UNCHANGED <<arg, res>>

\* mouseup on the document
MouseUp == \E touch \in {FALSE} : Release(touch)

\* touchend or touchcancel on the document
TouchEnd == \E touch \in {TRUE} : Release(touch)

(***************************************************************************)
(* SearchManager                                                           *)
(***************************************************************************)
\* text.includes(term)
Includes(text, term) ==
    \E k \in 0..(Len(text) - Len(term)) : SubSeq(text, k + 1, k + Len(term)) = term

\* a filter that compares the letters as they are
UpdateSearchResultsCaseSensitive(e) ==
    LET searchTerm == Trim(e.searchValue)
    IN  [e EXCEPT !.rows = [i \in DOMAIN e.rows |->
            LET shouldShow == searchTerm = <<>> \/ Includes(e.rows[i].text, searchTerm)
            IN  [e.rows[i] EXCEPT !.shown = shouldShow]]]

\* updateSearchResults on the rows of element e
UpdateSearchResults(e) ==
    LET searchTerm == Trim(ToLowerCase(e.searchValue))
    IN  [e EXCEPT !.rows = [i \in DOMAIN e.rows |->
            LET text == ToLowerCase(e.rows[i].text)
                shouldShow == searchTerm = <<>> \/ Includes(text, searchTerm)
            IN  [e.rows[i] EXCEPT !.shown = shouldShow]]]

\* updateClearButtonVisibility
UpdateClearButtonVisibility(e) == [e EXCEPT !.clearShown = e.searchValue # <<>>]

\* what the user leaves in the search input
SearchValues ==
    { <<"h", "e", "l", "l", "o">>, <<"H", "E", "L", "L", "O">>,
      <<" ", "H", "e", "l", "l", "o", " ">>, <<" ">>, <<"o", " ", "w">>,
      <<"o", "o">>, <<"x">>, <<".", ".", ".">> }

\* the input event of the search input: handleSearchInput
SearchInput ==
    /\ Sampled
    /\ ~hidden
    /\ doc # <<>>
    /\ \E v \in SearchValues \cup {<<>>} :
        /\ v # el[Head(doc)].searchValue
        /\ el' = [el EXCEPT ![Head(doc)] =
                    UpdateClearButtonVisibility(UpdateSearchResults([@ EXCEPT !.searchValue = v]))]
    /\ NoCreate("searchInput")
    /\ UNCHANGED <<arg, res, site, now, gateVars, hidden, monitorVars, dom, doc, raf, storeVars,
                   viewVars, toast>>
    /\ RtNext

\* a click on the clear button, which is displayed: clearSearch
ClearSearch ==
    /\ Sampled
    /\ ~hidden
    /\ doc # <<>>
    /\ el[Head(doc)].clearShown
    /\ el' = [el EXCEPT ![Head(doc)] =
                UpdateClearButtonVisibility(UpdateSearchResults([@ EXCEPT !.searchValue = <<>>]))]
    /\ NoCreate("searchClear")
    /\ UNCHANGED <<arg, res, site, now, gateVars, hidden, monitorVars, dom, doc, raf, storeVars,
                   viewVars, toast>>
    /\ RtNext

(***************************************************************************)
(* UI: the event listeners of setupEventListeners                          *)
(***************************************************************************)
\* delayedCreateTOC, from the window's load and pageshow events
DelayedCreateTOC(tms) == SetTimeout(tms, "pageLoad", Delays(site).pageLoad, createTimer)

LoadEvent ==
    /\ Sampled
    /\ Pending(timers) < MaxTimers
    /\ timers' = DelayedCreateTOC(timers)
    /\ NoCreate("load")
    /\ UNCHANGED <<arg, res, reqs, site, now, lastCreateTime, createTimer, hidden, monitorVars, dom,
                   panelVars, storeVars, viewVars, toast>>
    /\ RtNext

\* handleDocumentClick with a target inside the send button, and handleKeyDown
\* with Enter while the prompt input is the active element
Submit(op) ==
    /\ Sampled
    /\ ~hidden
    /\ Pending(timers) < MaxTimers
    /\ timers' = SetTimeout(timers, "submit", Delays(site).promptSubmission, createTimer)
    /\ NoCreate(op)
    /\ UNCHANGED <<arg, res, reqs, site, now, lastCreateTime, createTimer, hidden, monitorVars, dom,
                   panelVars, storeVars, viewVars, toast>>
    /\ RtNext

SendClick == \E op \in {"click"} : Submit(op)

EnterKey == \E op \in {"enter"} : Submit(op)

\* a toggle that leaves the store as it is
ToggleTOCUnsaved(op) ==
    /\ IF doc = <<>>
       THEN /\ CreateTOC(op)
            /\ UNCHANGED <<storeCollapsed, toast>>
       ELSE LET id == Head(doc)
                isCollapsed == el[id].collapsed
            IN  /\ el' = [el EXCEPT ![id].collapsed = ~isCollapsed]
                /\ toast' = IF isCollapsed THEN "TOC expanded" ELSE "TOC collapsed"
                /\ NoCreate(op)
                /\ UNCHANGED <<lastCreateTime, doc, raf, storeCollapsed>>
    /\ UNCHANGED <<reqs, site, now, createTimer, timers, hidden, monitorVars, dom, storePos,
                   viewVars>>
    /\ RtNext

\* toggleTOC
ToggleTOC(op) ==
    /\ IF doc = <<>>
       THEN /\ CreateTOC(op)
            /\ UNCHANGED <<storeCollapsed, toast>>
       ELSE LET id == Head(doc)
                isCollapsed == el[id].collapsed
            IN  /\ el' = [el EXCEPT ![id].collapsed = ~isCollapsed]
                /\ storeCollapsed' = IF isCollapsed THEN "false" ELSE "true"
                /\ toast' = IF isCollapsed THEN "TOC expanded" ELSE "TOC collapsed"
                /\ NoCreate(op)
                /\ UNCHANGED <<lastCreateTime, doc, raf>>
    /\ UNCHANGED <<reqs, site, now, createTimer, timers, hidden, monitorVars, dom, storePos,
                   viewVars>>
    /\ RtNext

\* handleGlobalShortcut with Ctrl/Cmd+Shift+T: toggleTOC
Shortcut ==
    /\ Sampled
    /\ ~hidden
    /\ ToggleTOC("shortcut")
    /\ UNCHANGED <<arg, res>>

\* a keydown event: its modifiers, its key, and whether document.activeElement
\* matches the site's promptInput selector
KeyEvent(ctrlKey, metaKey, shiftKey, key, inPrompt) ==
    [type |-> "keydown", ctrlKey |-> ctrlKey, metaKey |-> metaKey, shiftKey |-> shiftKey,
     key |-> key, inPrompt |-> inPrompt]

KeyEvents ==
    { KeyEvent(TRUE, FALSE, TRUE, "T", FALSE),
      KeyEvent(FALSE, TRUE, TRUE, "t", TRUE),
      KeyEvent(TRUE, FALSE, FALSE, "t", FALSE),
      KeyEvent(FALSE, FALSE, TRUE, "T", TRUE),
      KeyEvent(TRUE, FALSE, TRUE, "x", FALSE),
      KeyEvent(FALSE, FALSE, FALSE, "Enter", TRUE),
      KeyEvent(FALSE, FALSE, FALSE, "Enter", FALSE),
      KeyEvent(FALSE, FALSE, TRUE, "Enter", TRUE),
      KeyEvent(FALSE, FALSE, FALSE, "x", TRUE) }

\* the condition of handleGlobalShortcut; key.toLowerCase() on the keys above
IsShortcut(event) ==
    (event.ctrlKey \/ event.metaKey) /\ event.shiftKey /\ event.key \in {"t", "T"}

\* Enter, wherever the focus is
IsEnterAnywhere(event) == event.key = "Enter"

\* the condition of handleKeyDown
IsPromptEnter(event) == event.key = "Enter" /\ event.inPrompt

\* what the listeners did with the event: whether preventDefault was called,
\* and the message of showToast ("" when it was not called)
Handled(prevented, message) == [defaultPrevented |-> prevented, toast |-> message]

\* a key is pressed: handleKeyDown (capturing), then handleGlobalShortcut
KeyDown ==
    /\ Sampled
    /\ ~hidden
    /\ \E event \in KeyEvents :
        /\ arg' = event
        /\ IF IsPromptEnter(event)
           THEN /\ Pending(timers) < MaxTimers
                /\ timers' = SetTimeout(timers, "submit", Delays(site).promptSubmission, createTimer)
                /\ res' = Handled(FALSE, "")
                /\ NoCreate("keydown")
                /\ UNCHANGED <<reqs, site, now, lastCreateTime, createTimer, hidden, monitorVars, dom,
                               panelVars, storeVars, viewVars, toast>>
                /\ RtNext
           ELSE IF IsShortcut(event)
           THEN /\ ToggleTOC("keydown")
                /\ res' = Handled(TRUE, IF doc = <<>> THEN "" ELSE toast')
           ELSE /\ res' = Handled(FALSE, "")
                /\ NoCreate("keydown")
                /\ UNCHANGED <<site, now, gateVars, hidden, monitorVars, dom, panelVars, storeVars,
                               viewVars, toast>>
                /\ RtNext

\* a click event: whether its target is inside the site's send button
ClickEvent(onSend) == [type |-> "click", onSend |-> onSend]

\* a click on the page, off the panel: handleDocumentClick
Click ==
    /\ Sampled
    /\ ~hidden
    /\ \E event \in {ClickEvent(TRUE), ClickEvent(FALSE)} :
        /\ arg' = event
        /\ IF event.onSend
           THEN /\ Pending(timers) < MaxTimers
                /\ timers' = SetTimeout(timers, "submit", Delays(site).promptSubmission, createTimer)
           ELSE UNCHANGED timers
    /\ res' = Handled(FALSE, "")
    /\ NoCreate("click")
    /\ UNCHANGED <<reqs, site, now, lastCreateTime, createTimer, hidden, monitorVars, dom,
                   panelVars, storeVars, viewVars, toast>>
    /\ RtNext

Viewports == {<<800, 600>>, <<400, 300>>}

\* a resize that moves the panel and saves nothing
ResizeUnsaved ==
    /\ Sampled
    /\ \E v \in {<<800, 600>>, <<400, 300>>} \ {<<innerWidth, innerHeight>>} :
        /\ innerWidth' = v[1]
        /\ innerHeight' = v[2]
        /\ IF doc = <<>>
           THEN UNCHANGED el
           ELSE LET id == Head(doc)
                    e == el[id]
                    constrained == ConstrainToViewport(RectLeft(e, id, doc), RectTop(e, id, doc),
                                                       OffsetWidth(e, id, doc),
                                                       OffsetHeight(e, id, doc), v[1], v[2])
                IN  /\ e.positioned
                    /\ el' = [el EXCEPT ![id] = ApplyPosition(e, constrained.x, constrained.y)]
    /\ NoCreate("resize")
    /\ UNCHANGED <<arg, res, site, now, gateVars, hidden, monitorVars, dom, doc, raf, storeVars,
                   toast>>
    /\ RtNext

\* the window is resized, and handleWindowResize runs; a panel still waiting
\* for its animation frame has no position of its own yet (the style sheet
\* places it), and resizes in that interval are left out
Resize ==
    /\ Sampled
    /\ \E v \in Viewports \ {<<innerWidth, innerHeight>>} :
        /\ innerWidth' = v[1]
        /\ innerHeight' = v[2]
        /\ IF doc = <<>>
           THEN UNCHANGED <<el, storePos>>
           ELSE LET id == Head(doc)
                    e == el[id]
                    constrained == ConstrainToViewport(RectLeft(e, id, doc), RectTop(e, id, doc),
                                                       OffsetWidth(e, id, doc),
                                                       OffsetHeight(e, id, doc), v[1], v[2])
                IN  /\ e.positioned
                    /\ IF constrained.x # RectLeft(e, id, doc) \/ constrained.y # RectTop(e, id, doc)
                       THEN /\ el' = [el EXCEPT ![id] = ApplyPosition(e, constrained.x, constrained.y)]
                            /\ storePos' = <<constrained.x, constrained.y>>
                       ELSE UNCHANGED <<el, storePos>>
    /\ NoCreate("resize")
    /\ UNCHANGED <<arg, res, site, now, gateVars, hidden, monitorVars, dom, doc, raf, storeCollapsed,
                   toast>>
    /\ RtNext

(***************************************************************************)
(* The state after new UI(adapter): init() has installed the listeners,    *)
(* setupMonitor has started the poll and delayedCreateTOC its timer.       *)
(***************************************************************************)
InitWith(sites, doms, stored, viewports, n) ==
    /\ site \in sites
    /\ now = StartTime
    /\ lastCreateTime = 0
    /\ createTimer = 0
    /\ timers = <<[id |-> 1, kind |-> "poll", due |-> StartTime + Delays(site).stateCheck],
                  [id |-> 2, kind |-> "pageLoad", due |-> StartTime + Delays(site).pageLoad]>>
    /\ hidden = FALSE
    /\ href = "/c/1"
    /\ lastUrl = "/c/1"
    /\ lastQueryCount = 0
    /\ inThrottle = FALSE
    /\ dom \in doms
    /\ doc = <<>>
    /\ el = <<>>
    /\ raf = <<>>
    /\ \E st \in stored : storePos = st[1] /\ storeCollapsed = st[2]
    /\ \E v \in viewports : innerWidth = v[1] /\ innerHeight = v[2]
    /\ toast = ""
    /\ rt = NoRt
    /\ budget = n
    /\ reqs = 0
    /\ ev = [op |-> "init", create |-> "none", n |-> 0, had |-> FALSE]

\* no call of constrainToViewport is followed on its own
NoCall == arg = <<>> /\ res = <<>>

(***************************************************************************)
(* Spec: the rebuild gate - timers, debounce, cooldown - on every adapter  *)
(***************************************************************************)
Init ==
    /\ InitWith(Sites, {<<Msg(<<"h", "i">>)>>}, {<< <<>>, "unset" >>}, {<<800, 600>>},
                MaxGateEvents)
    /\ NoCall

Next ==
    \/ Tick(100, MaxGateTime)
    \/ FirePageLoad
    \/ FireSubmit
    \/ FireDebounce
    \/ FireChatChange
    \/ FireThrottle
    \/ AnimationFrame
    \/ LoadEvent
    \/ SendClick
    \/ Shortcut
    \/ Navigate
    \/ Mutation
    \/ Popstate

Spec == Init /\ [][Next]_vars

(***************************************************************************)
(* Claims about the rebuild gate, checked under Spec                       *)
(***************************************************************************)
TimersOfKind(tms, kind) == {i \in DOMAIN tms : tms[i].kind = kind}

\* the timers that hold a rebuild request which has not run yet
RequestKinds == {"debounce", "chatChange", "pageLoad", "submit"}
PendingRequests(tms) == {i \in DOMAIN tms : tms[i].kind \in RequestKinds}

\* a step in which a handler called createTOC
CreateCalled == ev'.create # "none"

\* C1 - Cooldown: every call of createTOC, whatever handler makes it, is
\* dropped when it comes less than 1000 time units after the last rebuild that
\* passed the gate - the panel, the store and lastCreateTime stay as they are
\* and no timer is added - and is executed, setting lastCreateTime to now,
\* when it comes 1000 or more after; so an executed rebuild is always at
\* least 1000 after the one before it.
C1_Cooldown ==
    [][CreateCalled =>
        IF now - lastCreateTime < Cooldown
        THEN /\ ev'.create = "dropped"
             /\ UNCHANGED <<lastCreateTime, doc, el, raf, storePos, storeCollapsed, createTimer>>
             /\ timers' \in {timers, WithoutNext(timers)}
        ELSE /\ ev'.create = "executed"
             /\ lastCreateTime' = now
             /\ lastCreateTime' - lastCreateTime >= Cooldown]_vars

\* a call was dropped less than 1000 after an executed rebuild, which left a panel
C1_Witness ==
    /\ ev.create = "dropped"
    /\ lastCreateTime >= StartTime
    /\ now - lastCreateTime < Cooldown
    /\ doc # <<>>

\* C2 (as amended) - Debounce coalescing: every monitor request leaves exactly
\* one debounce timer pending, due 300 after that request and held by
\* createTimer, so a burst of requests, each less than 300 after the one
\* before, ends in one call of createTOC 300 after the last request; that call
\* executes a rebuild if the cooldown gate lets it pass and is dropped if not.
C2_DebounceCoalescing ==
    /\ [](\A i \in TimersOfKind(timers, "debounce") :
            /\ TimersOfKind(timers, "debounce") = {i}
            /\ timers[i].id = createTimer
            /\ timers[i].due <= now + DebounceDelay)
    /\ [][ev'.op = "chatChange" =>
            \E i \in TimersOfKind(timers', "debounce") : timers'[i].due = now + DebounceDelay]_vars
    /\ [][ev'.op = "debounce" =>
            /\ ev'.n >= 1
            /\ timers[NextDue(timers)].due = now
            /\ TimersOfKind(timers', "debounce") = {}
            /\ ev'.create = IF now - lastCreateTime < Cooldown THEN "dropped" ELSE "executed"]_vars

\* a burst of two or more requests has ended in one call, which executed
C2_Witness == ev.op = "debounce" /\ ev.n >= 2 /\ ev.create = "executed"

\* C2 as claimed: the call a burst of N >= 1 requests ends in always executes
\* a rebuild.
C2_Original == [][ev'.op = "debounce" /\ ev'.n >= 1 => ev'.create = "executed"]_vars

\* C8 (as amended) - Of the pending rebuild requests at most one is a debounce
\* timer; the settle delays and the post-submission delay each hold a timer of
\* their own, and several of those can be pending together.
C8_OneDebouncePending == Cardinality(TimersOfKind(timers, "debounce")) <= 1

\* a debounce timer is pending beside another pending request
C8_Witness ==
    /\ TimersOfKind(timers, "debounce") # {}
    /\ Cardinality(PendingRequests(timers)) >= 2

\* C8 as claimed: at most one rebuild request is pending, whatever its source.
C8_Original == Cardinality(PendingRequests(timers)) <= 1

(***************************************************************************)
(* SpecPanel: the panel in the document - rebuilds, the animation frame,   *)
(* the drag controller, the keyboard shortcut, resizes, the poll           *)
(***************************************************************************)
InitPanel ==
    /\ InitWith({"chatgpt", "gemini"}, Doms,
                {<< <<>>, "unset" >>, << <<900, 20>>, "true" >>},
                {<<800, 600>>}, MaxPanelEvents)
    /\ NoCall

NextPanel ==
    \/ Tick(500, MaxPanelTime)
    \/ FirePageLoad
    \/ FireDebounce
    \/ FirePoll
    \/ AnimationFrame
    \/ Shortcut
    \/ DomChange
    \/ Resize
    \/ MouseDown
    \/ MouseMove
    \/ MouseUp
    \/ TouchStart
    \/ TouchMove
    \/ TouchEnd

SpecPanel == InitPanel /\ [][NextPanel]_vars

\* C3: every rebuild removes the panel in the document before it attaches a
\* new one, so the document never holds more than one panel.
C3_AtMostOnePanel == Len(doc) <= 1

\* a rebuild has run while a panel was in the document, and one panel is there
C3_Witness == ev.create = "executed" /\ ev.had /\ Len(doc) = 1

\* the panel's box fits the viewport with the padding on every side
Fits(id) ==
    /\ OffsetWidth(el[id], id, doc) + 2 * PADDING <= innerWidth
    /\ OffsetHeight(el[id], id, doc) + 2 * PADDING <= innerHeight

\* the panel's applied position keeps the padding to every edge
InsideViewport(id) ==
    /\ PADDING <= el[id].left
    /\ el[id].left <= innerWidth - OffsetWidth(el[id], id, doc) - PADDING
    /\ PADDING <= el[id].top
    /\ el[id].top <= innerHeight - OffsetHeight(el[id], id, doc) - PADDING

\* C4: a panel in the document whose position has been applied lies within
\* [10, innerWidth - width - 10] x [10, innerHeight - height - 10], when the
\* viewport is large enough for it.
C4_WithinViewport ==
    \A id \in Range(doc) : el[id].positioned /\ Fits(id) => InsideViewport(id)

\* C5: a rebuild that runs with an empty extraction leaves no panel in the
\* document: the panel that was there is removed and none is created.
C5_EmptyExtractionNoPanel ==
    [][ev'.create = "executed" /\ GetQueries(site, dom) = <<>> => doc' = <<>>]_vars

\* a rebuild has run on an empty extraction while a panel was in the document
C5_Witness ==
    /\ ev.create = "executed" /\ ev.had
    /\ GetQueries(site, dom) = <<>>
    /\ doc = <<>>

\* what a row shows of a query's text
Shown(t) ==
    IF Len(t) > MAX_QUERY_LENGTH
    THEN SubSeq(t, 1, MAX_QUERY_LENGTH - 3) \o <<".", ".", ".">>
    ELSE t

\* the panel a rebuild has just built
Built == el'[doc'[Len(doc')]]

\* C6: a rebuild that runs on N >= 1 queries builds a panel with N rows in
\* the order of the extraction, row i numbered i, and the footer "N queries";
\* row i shows the text of query i, cut to its first 67 characters and "..."
\* when it is longer than 70, and carries the whole text as its title.
C6_RowsMatchQueries ==
    [][ev'.create = "executed" /\ GetQueries(site, dom) # <<>> =>
        LET q == GetQueries(site, dom)
        IN  /\ doc' # <<>>
            /\ Len(Built.rows) = Len(q)
            /\ \A i \in 1..Len(q) :
                /\ Built.rows[i].num = i
                /\ Built.rows[i].text = Shown(q[i].text)
                /\ Built.rows[i].title = q[i].text
                /\ Built.rows[i].target = q[i].element
            /\ Built.footer = <<Len(q), " queries">>]_vars

\* a panel of several rows is in the document, one of them with a cut text
C6_Witness ==
    /\ ev.create = "executed"
    /\ doc # <<>>
    /\ Len(el[Head(doc)].rows) >= 2
    /\ \E i \in DOMAIN el[Head(doc)].rows :
        el[Head(doc)].rows[i].text # el[Head(doc)].rows[i].title

\* C6 as claimed: row i shows the text of query i.
C6_Original ==
    [][ev'.create = "executed" /\ GetQueries(site, dom) # <<>> =>
        LET q == GetQueries(site, dom)
        IN  /\ doc' # <<>>
            /\ Len(Built.rows) = Len(q)
            /\ \A i \in 1..Len(q) :
                /\ Built.rows[i].num = i
                /\ Built.rows[i].text = q[i].text
            /\ Built.footer = <<Len(q), " queries">>]_vars

\* C10: a panel whose position is clamped for its expanded size is collapsed
\* with the drag controller; when the drag controller expands it again, with
\* no move, viewport change or rebuild in between, it is back where it was
\* and the stored collapsed state is "false".
C10_CollapseExpandRoundTrip ==
    [][/\ rt.id # 0 /\ ~rt.done
       /\ ev'.op \in {"stopDrag", "touchEnd"}
       /\ rt.id \in Range(doc)
       /\ el[rt.id].collapsed /\ ~el'[rt.id].collapsed
       /\ PADDING <= rt.x /\ rt.x <= innerWidth - rt.w - PADDING
       /\ PADDING <= rt.y /\ rt.y <= innerHeight - rt.h - PADDING
       => /\ el'[rt.id].left = rt.x
          /\ el'[rt.id].top = rt.y
          /\ storePos' = <<rt.x, rt.y>>
          /\ storeCollapsed' = "false"]_vars

\* the drag controller has just expanded the panel it had collapsed
C10_Witness ==
    /\ ev.op \in {"stopDrag", "touchEnd"}
    /\ rt.id # 0 /\ rt.done /\ rt.id \in Range(doc)
    /\ ~el[rt.id].collapsed
    /\ el[rt.id].expandedWidth = rt.w
    /\ el[rt.id].left = rt.x /\ el[rt.id].top = rt.y
    /\ storeCollapsed = "false"

\* C17: whenever a panel is in the document, it is collapsed exactly when the
\* persisted collapsed flag of the site is true, an unset flag counting as
\* false - after any rebuilds, collapses and expansions by the drag
\* controller, and toggles by the keyboard shortcut.
C17_CollapsedMatchesStore ==
    doc # <<>> => (el[Head(doc)].collapsed <=> GetCollapsedState(storeCollapsed))

\* the animation frame of a panel that a rebuild has put in the document
FrameOfPanel == ev'.op = "frame" /\ raf # <<>> /\ Head(raf) \in Range(doc)

\* C18: the panel a rebuild has inserted is placed, in its animation frame,
\* at (innerWidth - width - 40, 60) when no position is saved and at
\* constrainToViewport(saved.x, saved.y, width, height) when one is, and the
\* position it is placed at is then the saved one.
C18_InitialPlacement ==
    [][FrameOfPanel =>
        LET id == Head(raf)
            width == OffsetWidth(el[id], id, doc)
            height == OffsetHeight(el[id], id, doc)
            placed == IF storePos = <<>>
                      THEN [x |-> innerWidth - width - 40, y |-> 60]
                      ELSE ConstrainToViewport(storePos[1], storePos[2], width, height,
                                               innerWidth, innerHeight)
        IN  /\ raf = <<id>>
            /\ el'[id].positioned
            /\ el'[id].left = placed.x /\ el'[id].top = placed.y
            /\ storePos' = <<placed.x, placed.y>>]_vars

\* a first panel, 300 wide in a viewport 800 wide, has been placed at the
\* default position, which is now the saved one
C18_Witness ==
    /\ ev.op = "frame"
    /\ doc # <<>> /\ ~el[Head(doc)].collapsed
    /\ el[Head(doc)].positioned
    /\ el[Head(doc)].left = 460 /\ el[Head(doc)].top = 60
    /\ storePos = <<460, 60>>
    /\ innerWidth = 800

\* C19: on a resize of the window the panel in the document is at its
\* position reclamped into the new viewport; the reclamped position is
\* applied and persisted when it differs from the one the panel had, and
\* when the panel already lay within the bounds of the new viewport, or when
\* the document has no panel, neither the panel nor the store has changed.
C19_ResizeReclamps ==
    [][ev'.op = "resize" =>
        /\ doc' = doc /\ storeCollapsed' = storeCollapsed
        /\ IF doc = <<>>
           THEN el' = el /\ storePos' = storePos
           ELSE LET id == Head(doc)
                    e == el[id]
                    w == OffsetWidth(e, id, doc)
                    h == OffsetHeight(e, id, doc)
                    c == ConstrainToViewport(e.left, e.top, w, h, innerWidth', innerHeight')
                    within == /\ PADDING <= e.left /\ e.left <= innerWidth' - w - PADDING
                              /\ PADDING <= e.top /\ e.top <= innerHeight' - h - PADDING
                IN  /\ el'[id].left = c.x /\ el'[id].top = c.y
                    /\ <<c.x, c.y>> # <<e.left, e.top>> => storePos' = <<c.x, c.y>>
                    /\ <<c.x, c.y>> = <<e.left, e.top>> => el' = el /\ storePos' = storePos
                    /\ within => el' = el /\ storePos' = storePos]_vars

\* the window has shrunk to 400 x 300 and the expanded panel, 300 wide, has
\* been moved to the left edge's reclamped position, which is the saved one
C19_Witness ==
    /\ ev.op = "resize"
    /\ innerWidth = 400
    /\ doc # <<>> /\ ~el[Head(doc)].collapsed
    /\ el[Head(doc)].left = 90
    /\ storePos = <<90, el[Head(doc)].top>>

(***************************************************************************)
(* SpecMonitor: the adapters' monitors on every site, with the tab hidden  *)
(* and shown, the page navigating and its history moving                   *)
(***************************************************************************)
InitMonitor ==
    /\ InitWith(Sites, {<<Msg(<<" ">>), Msg(<<"h", "i">>)>>}, {<< <<>>, "unset" >>},
                {<<800, 600>>}, MaxMonitorEvents)
    /\ NoCall

NextMonitor ==
    \/ Tick(500, MaxMonitorTime)
    \/ FirePageLoad
    \/ FireChatChange
    \/ FireDebounce
    \/ FireThrottle
    \/ FirePoll
    \/ AnimationFrame
    \/ VisibilityChange
    \/ Navigate
    \/ DomChange
    \/ Mutation
    \/ Popstate

SpecMonitor == InitMonitor /\ [][NextMonitor]_vars

\* C7: while the document is hidden, the mutation-driven URL check, the
\* popstate handler and the poll of every adapter leave lastQueryCount as it
\* is and neither call the rebuild callback nor set a timer that will.
C7_HiddenMonitorIdle ==
    [][hidden /\ ev'.op \in {"mutation", "popstate", "poll"} =>
        /\ lastQueryCount' = lastQueryCount
        /\ createTimer' = createTimer
        /\ reqs' = reqs
        /\ Cardinality(PendingRequests(timers')) = Cardinality(PendingRequests(timers))]_vars

(***************************************************************************)
(* SpecClamp: constrainToViewport on its own                               *)
(***************************************************************************)
\* viewport sizes, element sizes and coordinates around the edges of the range
ClampViewports == {MaxViewport - 20, MaxViewport - 10, MaxViewport}
ClampSizes == {5, 9, 10, 19, 20, 29}
ClampCoords == {0 - 5, 9, 10, 11, 20, 21, 30, 31, MaxViewport + 5}

InitClamp ==
    /\ InitWith({"chatgpt"}, {<<>>}, {<< <<>>, "unset" >>}, {<<800, 600>>}, 0)
    /\ arg \in [x : ClampCoords, y : {9, 10, 25}, w : ClampSizes, h : {9, 19},
                W : ClampViewports, H : {MaxViewport - 20, MaxViewport}]
    /\ res = <<>>

\* the call returns
Constrain ==
    /\ res = <<>>
    /\ res' = ConstrainToViewport(arg.x, arg.y, arg.w, arg.h, arg.W, arg.H)
    /\ UNCHANGED <<arg, site, now, gateVars, hidden, monitorVars, dom, panelVars, storeVars,
                   viewVars, toast, rt, budget, ev>>

NextClamp == Constrain

SpecClamp == InitClamp /\ [][NextClamp]_vars

\* C9: for an element smaller than the viewport less the padding on both
\* sides (w < W - 20, h < H - 20), constrainToViewport returns a point with
\* 10 <= x' <= W - w - 10 and 10 <= y' <= H - h - 10, and returns the point
\* it was given when that point is in the range already.
C9_ConstrainToViewport ==
    res # <<>> /\ arg.w < arg.W - 2 * 10 /\ arg.h < arg.H - 2 * 10 =>
        /\ 10 <= res.x /\ res.x <= arg.W - arg.w - 10
        /\ 10 <= res.y /\ res.y <= arg.H - arg.h - 10
        /\ (/\ 10 <= arg.x /\ arg.x <= arg.W - arg.w - 10
            /\ 10 <= arg.y /\ arg.y <= arg.H - arg.h - 10) => res.x = arg.x /\ res.y = arg.y

\* a point right of the range and inside it vertically has been pulled in
C9_Witness ==
    /\ res # <<>>
    /\ arg.w < arg.W - 2 * 10 /\ arg.h < arg.H - 2 * 10
    /\ arg.x > arg.W - arg.w - 10
    /\ res.x = arg.W - arg.w - 10
    /\ res.y = arg.y

(***************************************************************************)
(* SpecSearch: the search box of the panel                                 *)
(***************************************************************************)
HelloWorld == <<"H", "e", "l", "l", "o", " ", "w", "o", "r", "l", "d">>
Foo == <<"f", "o", "o">>
HelloThere == <<"H", "e", "l", "l", "o", " ", "t", "h", "e", "r", "e">>

InitSearch ==
    /\ InitWith({"chatgpt"},
                { <<Msg(HelloWorld), Msg(Foo), Msg(HelloThere)>>, <<Msg(LongText), Msg(Foo)>> },
                {<< <<>>, "unset" >>}, {<<800, 600>>}, MaxSearchEvents)
    /\ NoCall

NextSearch ==
    \/ Tick(500, MaxSearchTime)
    \/ FirePageLoad
    \/ AnimationFrame
    \/ SearchInput
    \/ ClearSearch

SpecSearch == InitSearch /\ [][NextSearch]_vars

\* text contains q, letters compared without regard to case
ContainsIgnoringCase(text, q) ==
    \E k \in 0..(Len(text) - Len(q)) :
        \A j \in 1..Len(q) : LowerChar(text[k + j]) = LowerChar(q[j])

\* the value without the white space around it
Trimmed(v) ==
    LET inner == {i \in DOMAIN v : ~IsWs(v[i])}
    IN  IF inner = {} THEN <<>>
        ELSE SubSeq(v, CHOOSE i \in inner : \A j \in inner : i <= j,
                       CHOOSE i \in inner : \A j \in inner : j <= i)

\* C11: after every input and every clear event of the search box, a row is
\* visible exactly when the trimmed query is empty or the text the row
\* displays contains the trimmed query, compared without regard to case.
C11_SearchFilter ==
    [][ev'.op \in {"searchInput", "searchClear"} =>
        LET e == el'[Head(doc')]
            q == Trimmed(e.searchValue)
        IN  /\ ev'.op = "searchClear" => e.searchValue = <<>>
            /\ \A i \in DOMAIN e.rows :
                e.rows[i].shown <=> (q = <<>> \/ ContainsIgnoringCase(e.rows[i].text, q))]_vars

\* the query "HELLO" with white space or capitals leaves the two Hello rows of three
C11_Witness ==
    /\ ev.op = "searchInput"
    /\ doc # <<>>
    /\ el[Head(doc)].searchValue \in {<<"H", "E", "L", "L", "O">>,
                                      <<" ", "H", "e", "l", "l", "o", " ">>}
    /\ Len(el[Head(doc)].rows) = 3
    /\ {i \in 1..3 : el[Head(doc)].rows[i].shown} = {1, 3}

(***************************************************************************)
(* SpecExtract: the adapters' getQueries on its own, over small pages      *)
(***************************************************************************)
Node(tier, text, lines, parent, prevLine) ==
    [tier |-> tier, text |-> text, lines |-> lines, parent |-> parent, prevLine |-> prevLine]

\* a text of DedupPrefix characters, and two longer ones that begin with it
Prefix100 == [i \in 1..DedupPrefix |-> "a"]

\* the elements the pages are made of: elements the first selector matches
\* (for Gemini, containers, with and without lines), and elements the second
\* selector matches (for Gemini, lines outside every container)
PageNodes ==
    { Node(1, <<"a">>, <<>>, 1, FALSE),
      Node(1, <<" ", "a", " ", " ", "b", " ", "c", " ">>, <<<<"a">>, <<"b">>, <<"c">>>>, 1, FALSE),
      Node(1, <<" ">>, <<>>, 1, FALSE),
      Node(1, <<"H", "e", "l", "l", "o", ",", " ", "a">>, <<>>, 1, FALSE),
      Node(1, <<"A">>, <<>>, 1, FALSE),
      Node(1, Prefix100 \o <<"x">>, <<>>, 1, FALSE),
      Node(1, Prefix100 \o <<"y">>, <<>>, 1, FALSE),
      Node(2, <<"a">>, <<>>, 1, FALSE),
      Node(2, <<"b">>, <<>>, 1, TRUE),
      Node(2, <<" ", "c", "\n">>, <<>>, 1, TRUE),
      Node(2, <<"b">>, <<>>, 2, FALSE),
      Node(2, <<" ">>, <<>>, 2, FALSE) }

\* a line whose previous sibling is a line follows that line in the page,
\* under the same parent (lines do not nest)
WellFormed(d) ==
    \A i \in DOMAIN d :
        d[i].prevLine => i > 1 /\ d[i - 1].tier = 2 /\ d[i - 1].parent = d[i].parent

Pages == {d \in UNION {[1..n -> PageNodes] : n \in 0..MaxNodes} : WellFormed(d)}

InitExtract ==
    /\ InitWith(Sites, Pages, {<< <<>>, "unset" >>}, {<<800, 600>>}, 0)
    /\ NoCall

\* config.getQueries() returns
Extract ==
    /\ res = <<>>
    /\ res' = [queries |-> GetQueries(site, dom)]
    /\ UNCHANGED <<arg, site, now, gateVars, hidden, monitorVars, dom, panelVars, storeVars,
                   viewVars, toast, rt, budget, ev>>

NextExtract == Extract

SpecExtract == InitExtract /\ [][NextExtract]_vars

\* the first 100 characters of a text, letters in lower case
KeyIgnoringCase(t) == [i \in 1..Min(Len(t), 100) |-> LowerChar(t[i])]

\* C12: of the queries the Claude adapter selects, one is in the output
\* exactly when no query before it agrees with it on the first 100
\* characters compared without regard to case.
C12_ClaudeDedup ==
    res # <<>> /\ site = "claude" =>
        LET cand == ClaudeSelect(dom, 1)
            kept == {j \in DOMAIN cand :
                        \A i \in 1..(j - 1) :
                            KeyIgnoringCase(cand[i].text) # KeyIgnoringCase(cand[j].text)}
        IN  /\ {res.queries[k].element : k \in DOMAIN res.queries} = {cand[j].element : j \in kept}
            /\ Len(res.queries) = Cardinality(kept)

\* the texts joined by single spaces, runs of white space made one space,
\* and the white space at the ends taken off
RECURSIVE Joined(_)
Joined(parts) ==
    IF Len(parts) <= 1 THEN (IF parts = <<>> THEN <<>> ELSE parts[1])
    ELSE parts[1] \o <<" ">> \o Joined(Tail(parts))

Normalized(parts) == Trimmed(CollapseWs(Joined(parts)))

IsGreeting(t) ==
    /\ Len(t) >= 6
    /\ [i \in 1..6 |-> LowerChar(t[i])] = <<"h", "e", "l", "l", "o", ",">>

SameIgnoringCase(t, u) ==
    Len(t) = Len(u) /\ \A i \in 1..Len(t) : LowerChar(t[i]) = LowerChar(u[i])

HasContainers(d) == \E i \in DOMAIN d : d[i].tier = 1

\* the text of a container: its lines joined, or all of its text
ContainerText(n) == Normalized(IF n.lines # <<>> THEN n.lines ELSE <<n.text>>)

\* the lines that follow line i under its parent, one after the other
StretchEnd(d, i) ==
    CHOOSE j \in (i + 1)..(Len(d) + 1) :
        /\ \A k \in (i + 1)..(j - 1) : d[k].parent = d[i].parent
        /\ j = Len(d) + 1 \/ d[j].parent # d[i].parent

StretchText(d, i) == Normalized([k \in 1..(StretchEnd(d, i) - i) |-> d[i + k - 1].text])

StartsStretch(d, i) == i = 1 \/ d[i - 1].parent # d[i].parent

\* a text that passes the filters is in the output, itself or as the earlier
\* query it repeats
Surfaces(t) ==
    t # <<>> /\ ~IsGreeting(t) => \E k \in DOMAIN res.queries : SameIgnoringCase(res.queries[k].text, t)

SiblingRunEnd(d, i) ==
    CHOOSE j \in (i + 1)..(Len(d) + 1) :
        /\ \A k \in (i + 1)..(j - 1) : d[k].prevLine
        /\ j = Len(d) + 1 \/ ~d[j].prevLine

Candidates(d) ==
    IF HasContainers(d) THEN {i \in DOMAIN d : d[i].tier = 1}
    ELSE {i \in DOMAIN d : StartsStretch(d, i)}

CandidateText(d, i) == IF HasContainers(d) THEN ContainerText(d[i]) ELSE StretchText(d, i)

\* C14: no query of the Gemini adapter has a text that starts with "hello,"
\* when lower-cased, no two have texts that are equal ignoring case, of the
\* candidates with equal texts the first in document order is the one kept,
\* and the kept queries are in document order.
C14_GeminiFilters ==
    res # <<>> /\ site = "gemini" =>
        /\ \A k \in DOMAIN res.queries : ~IsGreeting(res.queries[k].text)
        /\ \A k1, k2 \in DOMAIN res.queries :
            k1 # k2 => ~SameIgnoringCase(res.queries[k1].text, res.queries[k2].text)
        /\ \A i \in Candidates(dom) :
            LET t == CandidateText(dom, i)
                same == {j \in Candidates(dom) : SameIgnoringCase(CandidateText(dom, j), t)}
                first == CHOOSE j \in same : \A j2 \in same : j <= j2
            IN  t # <<>> /\ ~IsGreeting(t) =>
                    /\ \E k \in DOMAIN res.queries : res.queries[k].element = first
                    /\ i # first => \A k \in DOMAIN res.queries : res.queries[k].element # i
        /\ \A k1, k2 \in DOMAIN res.queries :
            (k1 < k2) = (res.queries[k1].element < res.queries[k2].element)

\* a greeting, "A" and "a" on a Gemini page: the greeting and the later of
\* the two equal texts have been dropped
C14_Witness ==
    /\ res # <<>> /\ site = "gemini"
    /\ Len(dom) = 3 /\ \A i \in 1..3 : dom[i].tier = 1 /\ dom[i].lines = <<>>
    /\ dom[1].text = <<"H", "e", "l", "l", "o", ",", " ", "a">>
    /\ dom[2].text = <<"A">>
    /\ dom[3].text = <<"a">>
    /\ Len(res.queries) = 1
    /\ res.queries[1] = [text |-> <<"A">>, element |-> 2]

IsWhitespace(c) == c \in {" ", "\n", "\t"}

\* the candidate elements of the page are none, or all of them blank
NothingToExtract(d) == \A i \in DOMAIN d : \A k \in DOMAIN d[i].text : IsWhitespace(d[i].text[k])

\* C15: whatever the adapter and whatever the page, a page without any
\* matching element included, the extraction returns a sequence of queries
\* (an empty one at the least) and none of its texts is empty or made of
\* white space only.
C15_NoBlankQuery ==
    res # <<>> =>
        /\ DOMAIN res.queries = 1..Len(res.queries)
        /\ \A k \in DOMAIN res.queries :
            /\ res.queries[k].element \in DOMAIN dom
            /\ \E c \in DOMAIN res.queries[k].text : ~IsWhitespace(res.queries[k].text[c])
        /\ NothingToExtract(dom) => res.queries = <<>>

\* a page whose matching elements are a blank one and "a": one query, "a"
C15_Witness ==
    /\ res # <<>>
    /\ Len(dom) = 2 /\ \A i \in 1..2 : dom[i].tier = 1 /\ dom[i].lines = <<>>
    /\ dom[1].text = <<" ">>
    /\ dom[2].text = <<"a">>
    /\ res.queries = <<[text |-> <<"a">>, element |-> 2]>>

(***************************************************************************)
(* SpecInput: the document's keydown and click listeners on every adapter  *)
(***************************************************************************)
InitInput ==
    /\ InitWith(Sites, {<<>>, <<Msg(<<"h", "i">>)>>},
                {<< <<>>, "unset" >>, << <<900, 20>>, "true" >>}, {<<800, 600>>}, MaxInputEvents)
    /\ NoCall

NextInput ==
    \/ Tick(500, MaxInputTime)
    \/ FirePageLoad
    \/ FireSubmit
    \/ AnimationFrame
    \/ KeyDown
    \/ Click

SpecInput == InitInput /\ [][NextInput]_vars

\* a step in which the shortcut's keys were pressed
ShortcutPressed == ev'.op = "keydown" /\ IsShortcut(arg')

\* C16 (as amended): on Ctrl or Meta + Shift + T the default handling of the
\* key event is prevented; when a panel is in the document its collapsed
\* state is flipped, the new state is persisted and a status message naming
\* it is shown; when none is, createTOC is called and no message is shown.
C16_ShortcutToggle ==
    [][ShortcutPressed =>
        /\ res'.defaultPrevented
        /\ IF doc # <<>>
           THEN LET id == Head(doc)
                IN  /\ doc' = doc
                    /\ el'[id].collapsed = ~el[id].collapsed
                    /\ storeCollapsed' = (IF el'[id].collapsed THEN "true" ELSE "false")
                    /\ res'.toast = (IF el'[id].collapsed THEN "TOC collapsed" ELSE "TOC expanded")
                    /\ ev'.create = "none"
           ELSE /\ ev'.create # "none"
                /\ res'.toast = ""
                /\ storeCollapsed' = storeCollapsed]_vars

\* the shortcut has collapsed a panel that was expanded
C16_Witness ==
    /\ ev.op = "keydown" /\ IsShortcut(arg)
    /\ doc # <<>> /\ el[Head(doc)].collapsed
    /\ storeCollapsed = "true"
    /\ res = Handled(TRUE, "TOC collapsed")

\* C16 as claimed: with or without a panel, the shortcut shows a status
\* message and has the default handling prevented.
C16_Original ==
    [][ShortcutPressed => res'.defaultPrevented /\ res'.toast # ""]_vars

\* a click on the send control, or Enter with the prompt input active
IsSubmission(event) ==
    \/ event.type = "click" /\ event.onSend
    \/ event.type = "keydown" /\ event.key = "Enter" /\ event.inPrompt

\* the site's delay after a submission
PromptSubmission ==
    IF site = "perplexity" THEN 200 ELSE 500

\* C20: every click on the send control and every Enter pressed while the
\* prompt input is the active element adds one timer that is due
\* promptSubmission after the event, and whose callback, run at that time,
\* calls createTOC; any other click or key press adds no timer.
C20_SubmissionTrigger ==
    [][/\ ev'.op \in {"keydown", "click"} =>
            IF IsSubmission(arg')
            THEN /\ Len(timers') = Len(timers) + 1
                 /\ SubSeq(timers', 1, Len(timers)) = timers
                 /\ timers'[Len(timers')].kind = "submit"
                 /\ timers'[Len(timers')].due = now + PromptSubmission
                 /\ timers'[Len(timers')].id \notin TimerIds(timers)
            ELSE timers' = timers
       /\ ev'.op = "submit" =>
            /\ \E i \in DOMAIN timers :
                /\ timers[i].kind = "submit" /\ timers[i].due = now
                /\ timers' = [k \in 1..(Len(timers) - 1) |-> IF k < i THEN timers[k] ELSE timers[k + 1]]
            /\ ev'.create # "none"]_vars

\* on Perplexity, Enter in the prompt input a moment ago and a click on the
\* send button now: two rebuilds are scheduled, each 200 after its event
C20_Witness ==
    /\ site = "perplexity"
    /\ ev.op = "click" /\ arg = ClickEvent(TRUE)
    /\ \E i, j \in DOMAIN timers :
        /\ i # j
        /\ timers[i].kind = "submit" /\ timers[j].kind = "submit"
        /\ timers[j].due = now + 200

(***************************************************************************)
(* SpecPoll: the monitor's interval over two periods, on every adapter,    *)
(* while the page renders other messages and the tab is hidden and shown   *)
(***************************************************************************)
InitPoll ==
    /\ InitWith(Sites, Doms, {<< <<>>, "unset" >>}, {<<800, 600>>}, MaxPollEvents)
    /\ NoCall

NextPoll ==
    \/ Tick(2500, MaxPollTime)
    \/ FirePageLoad
    \/ FireDebounce
    \/ FirePoll
    \/ AnimationFrame
    \/ DomChange
    \/ VisibilityChange

SpecPoll == InitPoll /\ [][NextPoll]_vars

\* a step that is a poll tick with the tab visible
VisiblePoll == ev'.op = "poll" /\ ~hidden

\* the number of queries the adapter extracts from the page
CurrentQueries == Len(GetQueries(site, dom))

\* the count a site requires the queries to exceed
SiteMinimum == IF site = "perplexity" THEN 1 ELSE 0

\* the rebuild callback has been called in the step: a request is counted and
\* the debounce timer is set DebounceDelay from now
CallbackInvoked ==
    /\ reqs' > reqs
    /\ \E i \in DOMAIN timers' :
        /\ timers'[i].kind = "debounce" /\ timers'[i].due = now + 300
        /\ timers'[i].id = createTimer'

\* the debounce timers pending
DebounceTimers(tms) == {tms[i] : i \in TimersOfKind(tms, "debounce")}

CallbackNotInvoked ==
    /\ reqs' = reqs
    /\ createTimer' = createTimer
    /\ DebounceTimers(timers') = DebounceTimers(timers)

\* C21: on a poll tick with the tab visible and no panel in the document,
\* the rebuild callback is invoked on the tick when the number of extracted
\* queries exceeds the site's minimum (1 on Perplexity, 0 elsewhere), and is
\* not invoked when it does not.
C21_PollPanelAbsent ==
    [][VisiblePoll /\ doc = <<>> =>
        IF CurrentQueries > SiteMinimum THEN CallbackInvoked ELSE CallbackNotInvoked]_vars

\* Perplexity, no panel in the document and one query on the page: the poll
\* tick has called nothing
C21_Witness ==
    /\ ev.op = "poll" /\ ~hidden
    /\ site = "perplexity"
    /\ doc = <<>> /\ raf = <<>>
    /\ CurrentQueries = 1
    /\ now >= StartTime + 5000
    /\ TimersOfKind(timers, "debounce") = {}

\* the count has changed since the last tick that recorded it, and exceeds
\* the site's minimum
CountChanged == CurrentQueries # lastQueryCount /\ CurrentQueries > SiteMinimum

\* the tick has left the monitor, the panel and the pending requests alone
TickChangesNothing ==
    /\ CallbackNotInvoked
    /\ lastQueryCount' = lastQueryCount
    /\ doc' = doc /\ el' = el
    /\ Len(timers') = Len(timers)

\* C22: on a poll tick with the tab visible and a panel in the document, the
\* rebuild callback is invoked, and lastQueryCount set to the current count,
\* exactly when the count differs from lastQueryCount and exceeds the site's
\* minimum; when the count equals lastQueryCount the tick invokes nothing
\* and changes nothing.
C22_PollPanelPresent ==
    [][VisiblePoll /\ doc # <<>> =>
        /\ CountChanged => CallbackInvoked /\ lastQueryCount' = CurrentQueries
        /\ ~CountChanged => CallbackNotInvoked
        /\ CurrentQueries = lastQueryCount => TickChangesNothing]_vars

\* the second tick has found the panel and the three queries the first one
\* recorded, and has called nothing
C22_Witness ==
    /\ ev.op = "poll" /\ ~hidden
    /\ now = StartTime + 10000
    /\ doc # <<>>
    /\ CurrentQueries = 3 /\ lastQueryCount = 3
    /\ TimersOfKind(timers, "debounce") = {}

\* C23: on Gemini a poll tick with the tab visible that finds a panel in the
\* document and no query on the page removes the panel itself - the rebuild
\* callback is not invoked and the gate of createTOC is not passed - and on
\* the other adapters no poll tick takes the panel out of the document.
C23_GeminiRemovesPanel ==
    [][VisiblePoll /\ doc # <<>> =>
        IF site = "gemini" /\ CurrentQueries = 0
        THEN /\ doc' = <<>>
             /\ CallbackNotInvoked
             /\ lastCreateTime' = lastCreateTime
        ELSE doc' = doc]_vars

(***************************************************************************)
(* SpecMonitor again: the navigation signal and the throttle               *)
(***************************************************************************)
\* the step has set one more timer that calls the rebuild callback 1500
\* from now, the settle delay of every site
ChatChangeScheduled ==
    /\ Cardinality(TimersOfKind(timers', "chatChange")) =
            Cardinality(TimersOfKind(timers, "chatChange")) + 1
    /\ \E i \in DOMAIN timers' :
        /\ timers'[i].kind = "chatChange" /\ timers'[i].due = now + 1500
        /\ timers'[i].id \notin TimerIds(timers)

NothingScheduled ==
    /\ Cardinality(TimersOfKind(timers', "chatChange")) =
            Cardinality(TimersOfKind(timers, "chatChange"))
    /\ CallbackNotInvoked

\* a step in which the mutation observer's URL check has run, the tab visible
VisibleUrlCheck == ev'.op = "mutation" /\ ~inThrottle /\ ~hidden

\* C24 (as amended): on every adapter the URL check that a mutation runs
\* with the tab visible, when it finds a URL other than the recorded one,
\* resets lastQueryCount to zero, records the URL and schedules the rebuild
\* callback after the settle delay, at which time the callback is called;
\* a mutation that finds the recorded URL neither resets the counter nor
\* schedules anything.  On ChatGPT a history navigation with the tab visible
\* resets the counter and schedules the callback as well, and leaves the
\* recorded URL as it is.
C24_NavigationSignal ==
    [][/\ VisibleUrlCheck /\ href # lastUrl =>
            lastQueryCount' = 0 /\ lastUrl' = href /\ ChatChangeScheduled
       /\ ev'.op = "mutation" /\ href = lastUrl =>
            lastQueryCount' = lastQueryCount /\ lastUrl' = lastUrl /\ NothingScheduled
       /\ ev'.op = "popstate" /\ ~hidden =>
            /\ site = "chatgpt"
            /\ lastQueryCount' = 0 /\ lastUrl' = lastUrl /\ ChatChangeScheduled
       /\ ev'.op = "chatChange" =>
            /\ \E i \in DOMAIN timers : timers[i].kind = "chatChange" /\ timers[i].due = now
            /\ CallbackInvoked]_vars

\* a mutation has had the visible tab's new URL detected: it is recorded, the
\* counter is zero and the callback is due 1500 from now
C24_Witness ==
    /\ ev.op = "mutation" /\ ~hidden
    /\ href = "/c/2" /\ lastUrl = "/c/2"
    /\ lastQueryCount = 0
    /\ \E i \in DOMAIN timers : timers[i].kind = "chatChange" /\ timers[i].due = now + 1500

\* C24 as claimed: whenever the monitor, the tab visible, comes upon a
\* changed URL - in the mutation's URL check or on a history navigation - it
\* resets the counter, records the new URL and schedules the callback.
C24_Original ==
    [][(VisibleUrlCheck \/ (ev'.op = "popstate" /\ ~hidden)) /\ href' # lastUrl =>
        lastQueryCount' = 0 /\ lastUrl' = href' /\ ChatChangeScheduled]_vars

\* the timers that end a throttle window
ThrottleTimers(tms) == TimersOfKind(tms, "throttle")

\* C25: the URL check of the mutation observer runs at most once per 500
\* time units: a mutation that comes when no window is open runs the check
\* at once and opens a window that ends 500 later, and a mutation that comes
\* while the window is open is discarded - it changes nothing, and nothing
\* is called for it when the window ends.
C25_Throttle ==
    [][/\ inThrottle <=> ThrottleTimers(timers) # {}
       /\ Cardinality(ThrottleTimers(timers)) <= 1
       /\ ev'.op = "mutation" /\ ~inThrottle =>
            /\ inThrottle'
            /\ \E i \in ThrottleTimers(timers') : timers'[i].due = now + 500
            /\ ~hidden => lastUrl' = href
       /\ ev'.op = "mutation" /\ inThrottle =>
            /\ inThrottle'
            /\ timers' = timers
            /\ lastUrl' = lastUrl /\ lastQueryCount' = lastQueryCount
            /\ CallbackNotInvoked
       /\ inThrottle /\ ~inThrottle' =>
            /\ ev'.op = "throttle"
            /\ \E i \in ThrottleTimers(timers) : timers[i].due = now
            /\ ThrottleTimers(timers') = {}
            /\ Len(timers') = Len(timers) - 1
            /\ lastUrl' = lastUrl /\ lastQueryCount' = lastQueryCount
            /\ CallbackNotInvoked]_vars

\* a mutation has come, the tab visible, while the window was open: the new
\* URL of the page is not recorded and no callback is scheduled
C25_Witness ==
    /\ ev.op = "mutation" /\ ~hidden
    /\ inThrottle
    /\ href # lastUrl
    /\ TimersOfKind(timers, "chatChange") = {}

(***************************************************************************)
(* Spec again: the debounce timer                                          *)
(***************************************************************************)
\* C26: at most one debounce timer is pending at any time; a request of the
\* monitor that arrives while one is pending cancels it and sets a new one,
\* due 300 after the request, and the callback that runs is that of the
\* timer set last - a canceled timer never fires.
C26_DebounceReplaced ==
    [][/\ Cardinality(DebounceTimers(timers)) <= 1
       /\ \A t \in DebounceTimers(timers) : t.id = createTimer
       /\ reqs' > reqs =>
            DebounceTimers(timers') = {[id |-> createTimer', kind |-> "debounce", due |-> now + 300]}
       /\ ev'.op = "debounce" =>
            /\ DebounceTimers(timers) = {[id |-> createTimer, kind |-> "debounce", due |-> now]}
            /\ DebounceTimers(timers') = {}
            /\ ev'.create # "none"]_vars

\* a request has arrived less than 300 after the one before it: one debounce
\* timer is pending, due 300 from now
C26_Witness ==
    /\ ev.op = "chatChange"
    /\ reqs = 2
    /\ \E i \in DOMAIN timers :
        /\ timers[i].kind = "debounce" /\ timers[i].due = now + 300 /\ timers[i].id = createTimer
        /\ TimersOfKind(timers, "debounce") = {i}

(***************************************************************************)
(* SpecDrag: the drag controller followed event by event - presses on any  *)
(* part of the header, moves and releases with and without a listener      *)
(***************************************************************************)
\* where the pointer of a drag is, relative to the press
DragMoves == {<<2, 0>>, <<0 - 3, 0>>, <<0, 4>>, <<0, 5>>, <<40, 30>>}

\* a mouse or touch event as the handlers read it: the panel whose header
\* or whose document listener receives it (0 when nothing listens), the part
\* of the header under the pointer, the number of fingers on the screen (1
\* for the mouse), the offset of the pointer or of the first finger
PointerEvent(type, touch, touches, id, target, at) ==
    [type |-> type, touch |-> touch, touches |-> touches, id |-> id, target |-> target,
     at |-> at]

\* an event no listener is registered for
Unheard(op) ==
    /\ Sampled
    /\ ~hidden
    /\ NoCreate(op)
    /\ UNCHANGED <<site, now, gateVars, hidden, monitorVars, dom, doc, el, raf, storeVars,
                   viewVars, toast>>
    /\ RtNext

\* mousedown or touchstart (one finger) on a panel's header
PointerDown ==
    \E touch \in BOOLEAN, id \in Range(doc), target \in Targets, g \in Grabs :
        /\ PressOn(touch, id, target, g)
        /\ arg' = PointerEvent("down", touch, 1, id, target, g)
        /\ res' = res

\* mousemove or touchmove on the document
PointerMoved ==
    \E touch \in BOOLEAN, touches \in 1..MaxTouches, m \in DragMoves :
        LET heard == {id \in DOMAIN el : IF touch THEN el[id].touchL ELSE el[id].mouseL}
        IN  /\ IF heard = {}
               THEN /\ Unheard(IF touch THEN "touchDrag" ELSE "drag")
                    /\ arg' = PointerEvent("move", touch, touches, 0, "document", m)
               ELSE \E id \in heard :
                        /\ MoveOn(touch, touches, id, m)
                        /\ arg' = PointerEvent("move", touch, touches, id, "document", m)
            /\ ~touch => touches = 1
            /\ res' = res

\* mouseup, touchend or touchcancel on the document
PointerUp ==
    \E touch \in BOOLEAN :
        LET heard == {id \in DOMAIN el : IF touch THEN el[id].touchL ELSE el[id].mouseL}
        IN  /\ IF heard = {}
               THEN /\ Unheard(IF touch THEN "touchEnd" ELSE "stopDrag")
                    /\ arg' = PointerEvent("up", touch, 1, 0, "document", <<0, 0>>)
               ELSE \E id \in heard :
                        /\ ReleaseOn(touch, id)
                        /\ arg' = PointerEvent("up", touch, 1, id, "document", <<0, 0>>)
            /\ res' = res

InitDrag ==
    /\ InitWith({"gemini"}, {<<Msg(<<"h", "i">>)>>},
                {<< <<>>, "unset" >>, << <<900, 20>>, "true" >>},
                {<<800, 600>>}, MaxDragEvents)
    /\ NoCall

NextDrag ==
    \/ Tick(500, MaxDragTime)
    \/ FirePageLoad
    \/ AnimationFrame
    \/ Shortcut
    \/ PointerDown
    \/ PointerMoved
    \/ PointerUp

SpecDrag == InitDrag /\ [][NextDrag]_vars

\* a press was handled in this step; arg' is its event
PressStep == ev'.op \in {"startDrag", "touchStart"}

\* the controller of panel id went to Dragging with the pointer and the
\* element's coordinates recorded
DragBegun(id) ==
    /\ el'[id].isDragging
    /\ ~el'[id].hasMoved
    /\ el'[id].isClickOnToggle = (arg'.target = "toggle")
    /\ el'[id].startX = el[id].left + arg'.at[1]
    /\ el'[id].startY = el[id].top + arg'.at[2]
    /\ el'[id].startElementX = el[id].left
    /\ el'[id].startElementY = el[id].top
    /\ el'[id].collapsed = el[id].collapsed
    /\ el'[id].left = el[id].left /\ el'[id].top = el[id].top
    /\ storePos' = storePos /\ storeCollapsed' = storeCollapsed

\* the panel was collapsed by the press and its controller is where it was
CollapsedDirectly(id) ==
    /\ el'[id].collapsed
    /\ storeCollapsed' = "true"
    /\ el'[id].isDragging = el[id].isDragging
    /\ el'[id].hasMoved = el[id].hasMoved
    /\ el'[id].isClickOnToggle = el[id].isClickOnToggle
    /\ el'[id].startX = el[id].startX /\ el'[id].startY = el[id].startY
    /\ el'[id].startElementX = el[id].startElementX
    /\ el'[id].startElementY = el[id].startElementY

\* C27 (as amended): a mouse-down or single-finger touch-start on the header
\* moves the drag controller to Dragging and records the start pointer and
\* the start element coordinates, with two exceptions: a press on the
\* collapse/expand control while the panel is expanded collapses the panel
\* directly and leaves the controller as it was (Idle stays Idle), and a
\* touch-start on the export button, which is inside the header, changes
\* nothing at all.
C27_DragStart ==
    [][PressStep =>
        LET id == arg'.id
        IN  IF arg'.touch /\ arg'.target = "export"
            THEN el' = el /\ storePos' = storePos /\ storeCollapsed' = storeCollapsed
            ELSE IF arg'.target = "toggle" /\ ~el[id].collapsed
            THEN CollapsedDirectly(id)
            ELSE DragBegun(id)]_vars

\* a touch on the drag handle has begun a drag
C27_Witness ==
    /\ ev.op = "touchStart"
    /\ arg.target = "handle"
    /\ arg.id \in DOMAIN el
    /\ el[arg.id].isDragging
    /\ el[arg.id].touchL
    /\ el[arg.id].startX = el[arg.id].left + 5
    /\ el[arg.id].startElementX = el[arg.id].left

\* C27 as claimed: the press on the collapse/expand control of an expanded
\* panel is the only press on the header that does not begin a drag.
C27_Original ==
    [][PressStep =>
        LET id == arg'.id
        IN  IF arg'.target = "toggle" /\ ~el[id].collapsed
            THEN CollapsedDirectly(id)
            ELSE DragBegun(id)]_vars

\* a release was handled in this step by the controller of panel arg'.id,
\* which was Dragging
ReleaseStep ==
    /\ ev'.op \in {"stopDrag", "touchEnd"}
    /\ arg'.id # 0
    /\ el[arg'.id].isDragging

\* C28: a release while Dragging returns the controller to Idle and persists
\* the panel's final position; when no move of the drag counted as movement
\* and the press was on the collapse/expand control, the release toggles the
\* panel - collapsed if it was expanded, expanded if it was collapsed - and
\* otherwise the collapsed state is unchanged. Stated for a controller whose
\* panel is in the document.
C28_DragRelease ==
    [][ReleaseStep /\ arg'.id \in Range(doc) =>
        LET id == arg'.id
        IN  /\ ~el'[id].isDragging
            /\ storePos' = <<el'[id].left, el'[id].top>>
            /\ IF ~el[id].hasMoved /\ el[id].isClickOnToggle
               THEN el'[id].collapsed = ~el[id].collapsed
               ELSE el'[id].collapsed = el[id].collapsed]_vars

\* a move was handled in this step by the controller of panel arg'.id,
\* which was Dragging
MoveStep ==
    /\ ev'.op \in {"drag", "touchDrag"}
    /\ arg'.id # 0
    /\ el[arg'.id].isDragging

\* the move of this step has |dx| or |dy| at the threshold or beyond it
Reaches ==
    \/ Abs(arg'.at[1]) >= (IF arg'.touch THEN 5 ELSE 3)
    \/ Abs(arg'.at[2]) >= (IF arg'.touch THEN 5 ELSE 3)

\* constrainToViewport(startElement + delta) for the move of this step
Dragged(id) ==
    ConstrainToViewport(el[id].startElementX + arg'.at[1], el[id].startElementY + arg'.at[2],
                        OffsetWidth(el[id], id, doc), OffsetHeight(el[id], id, doc),
                        innerWidth, innerHeight)

\* C29 (as amended): while Dragging, a mouse move or a single-finger touch
\* move leaves the panel position unchanged and does not count as movement
\* as long as no move of this drag has had |dx| or |dy| reach the threshold
\* (3 for mouse, 5 for touch); once one has, every later mouse move or
\* single-finger touch move of the drag sets the position to
\* constrainToViewport(startElement + delta), also inside the threshold. A
\* touch move with more than one finger on the screen changes nothing. The
\* movement flag of a controller changes only by a move or by the press that
\* starts a drag.
C29_DragThreshold ==
    /\ [][MoveStep =>
            LET id == arg'.id
            IN  IF arg'.touch /\ arg'.touches # 1
                THEN el' = el
                ELSE IF ~el[id].hasMoved /\ ~Reaches
                THEN el' = el
                ELSE /\ el'[id].hasMoved
                     /\ el'[id].left = Dragged(id).x
                     /\ el'[id].top = Dragged(id).y]_vars
    /\ [][\A id \in DOMAIN el \cap DOMAIN el' :
            ev'.create # "executed" /\ el'[id].hasMoved # el[id].hasMoved =>
                \/ MoveStep /\ arg'.id = id
                \/ PressStep /\ arg'.id = id]_vars

\* the pointer is back inside the threshold after a move beyond it, and the
\* panel has followed it there
C29_Witness ==
    /\ ev.op = "drag"
    /\ arg.at = <<2, 0>>
    /\ arg.id \in Range(doc)
    /\ el[arg.id].isDragging
    /\ el[arg.id].hasMoved
    /\ el[arg.id].left = el[arg.id].startElementX + 2
    /\ el[arg.id].top = el[arg.id].startElementY

\* C29 as claimed: once a move has reached the threshold, every later move
\* of the drag updates the position.
C29_Original ==
    [][MoveStep =>
        LET id == arg'.id
        IN  IF ~el[id].hasMoved /\ ~Reaches
            THEN el' = el
            ELSE /\ el'[id].hasMoved
                 /\ el'[id].left = Dragged(id).x
                 /\ el'[id].top = Dragged(id).y]_vars

\* C30: once a release or touch-cancel has ended a drag, the controller is
\* Idle until a press on its header starts a new drag, and no mouse or touch
\* move changes the panel of an Idle controller; no move, in a drag or out of
\* it, changes the persisted position.
C30_NoMoveAfterRelease ==
    /\ [][ReleaseStep /\ arg'.id \in DOMAIN el' => ~el'[arg'.id].isDragging]_vars
    /\ [][\A id \in DOMAIN el \cap DOMAIN el' :
            ev'.create # "executed" /\ ~el[id].isDragging /\ el'[id].isDragging =>
                PressStep /\ arg'.id = id]_vars
    /\ [][ev'.op \in {"drag", "touchDrag"} =>
            /\ storePos' = storePos
            /\ \A id \in DOMAIN el :
                ~el[id].isDragging => id \in DOMAIN el' /\ el'[id] = el[id]]_vars

\* a touch release has ended the drag while the mouse listeners of the same
\* controller are still registered; a mouse move far beyond the threshold
\* has reached the controller, and the panel is where the release left it
C30_Witness ==
    /\ ev.op = "drag"
    /\ arg.at = <<40, 30>>
    /\ arg.id \in Range(doc)
    /\ el[arg.id].mouseL
    /\ ~el[arg.id].isDragging
    /\ storePos = <<el[arg.id].left, el[arg.id].top>>

(***************************************************************************)
(* SpecCollapse: toggleCollapse on its own, on a panel in the document     *)
(***************************************************************************)
\* dataset.expandedWidth of the panel: 0 when the attribute is absent, or a
\* width recorded by an earlier collapse (the layout may have changed since)
CollapseWidths == {0} \cup {100 * k : k \in 2..MaxWidths}
\* where the panel is
CollapseLefts == {10, 60, 250, 460, 742}
CollapseTops == {20, 250}

\* the panels toggleCollapse is called on: a panel with one row, expanded or
\* collapsed, placed and shown
CollapsePanels ==
    {[RestoreCollapsedState(BuildTOCStructure(GetQueriesChatGPT(<<Msg(<<"h", "i">>)>>)), sc)
        EXCEPT !.positioned = TRUE, !.left = x, !.top = y, !.expandedWidth = rw] :
     sc \in {"true", "false"}, x \in CollapseLefts, y \in CollapseTops, rw \in CollapseWidths}

\* startDrag and touchStart call toggleCollapse(false) on an expanded panel
\* only; stopDrag and touchEnd call toggleCollapse(true)
InitCollapse ==
    /\ InitWith({"chatgpt"}, {<<>>}, {<< <<>>, "unset" >>}, Viewports, 0)
    /\ arg \in [e : CollapsePanels, isExpanding : BOOLEAN]
    /\ ~arg.isExpanding => ~arg.e.collapsed
    /\ res = <<>>

\* the call returns
Toggle ==
    /\ res = <<>>
    /\ res' = ToggleCollapse(arg.e, 1, arg.isExpanding, <<1>>, innerWidth, innerHeight,
                             storePos, storeCollapsed)
    /\ UNCHANGED <<arg, site, now, gateVars, hidden, monitorVars, dom, panelVars, storeVars,
                   viewVars, toast, rt, budget, ev>>

NextCollapse == Toggle

SpecCollapse == InitCollapse /\ [][NextCollapse]_vars

\* C31: collapsing a panel at x with width ew records ew as the remembered
\* width and moves the panel to x + ew - 48 with y unchanged, so that the right
\* edge of the 48-wide panel is the right edge the full panel had; expanding
\* moves it to constrainToViewport(x - (rw - 48), y) for a box of width rw and
\* the expanded panel's height, where rw is the remembered width, or 300 when
\* none is remembered. The position is saved together with the new flag.
C31_CollapseGeometry ==
    res # <<>> =>
        LET x == arg.e.left
            y == arg.e.top
        IN  IF ~arg.isExpanding
            THEN LET ew == OffsetWidth(arg.e, 1, <<1>>)
                 IN  /\ res.e.collapsed
                     /\ res.e.expandedWidth = ew
                     /\ res.e.left = x + ew - 48
                     /\ res.e.top = y
                     /\ res.e.left + OffsetWidth(res.e, 1, <<1>>) = x + ew
                     /\ res.sp = <<x + ew - 48, y>>
                     /\ res.sc = "true"
            ELSE LET rw == IF arg.e.expandedWidth = 0 THEN 300 ELSE arg.e.expandedWidth
                     c == ConstrainToViewport(x - (rw - 48), y, rw,
                                              OffsetHeight(res.e, 1, <<1>>),
                                              innerWidth, innerHeight)
                 IN  /\ ~res.e.collapsed
                     /\ res.e.left = c.x
                     /\ res.e.top = c.y
                     /\ res.sp = <<c.x, c.y>>
                     /\ res.sc = "false"

\* a collapsed panel that remembers a width other than the default has been
\* expanded, and the viewport had room for it where it went
C31_Witness ==
    /\ res # <<>>
    /\ arg.isExpanding
    /\ arg.e.collapsed
    /\ arg.e.expandedWidth = 200
    /\ res.e.left = arg.e.left - 152
    /\ res.e.top = arg.e.top

(***************************************************************************)
(* SpecClamp again: an element the viewport has no room for                *)
(***************************************************************************)
\* C32: when the viewport is smaller than the element plus twice the padding
\* in a dimension (innerWidth < w + 20, innerHeight < h + 20),
\* constrainToViewport returns the padding, 10, for that coordinate whatever
\* coordinate it was given.
C32_NoRoomPinsToPadding ==
    res # <<>> =>
        /\ arg.W < arg.w + 20 => res.x = 10
        /\ arg.H < arg.h + 20 => res.y = 10

\* a point far to the right of a viewport too narrow for the element, but
\* high enough for it, has come back with x at the padding and y as given
C32_Witness ==
    /\ res # <<>>
    /\ arg.W < arg.w + 20
    /\ arg.H >= arg.h + 20
    /\ arg.x > arg.W
    /\ arg.y = 25
    /\ res.x = 10
    /\ res.y # 10

(***************************************************************************)
(* SpecSettle: the page and the user act until MaxActiveTime and are idle  *)
(* from then on, with the tab visible; timers and the poll keep running    *)
(***************************************************************************)
\* the page and the user are still active
Active == now <= MaxActiveTime

PageRenders == Active /\ DomChange

UserSubmits == Active /\ SendClick

InitSettle ==
    /\ InitWith(Sites, Doms, {<< <<>>, "unset" >>}, {<<800, 600>>}, MaxSettleEvents)
    /\ NoCall

\* what the browser does on its own: time passes and due callbacks run
Browser ==
    \/ Tick(500, MaxSettleTime)
    \/ FirePageLoad
    \/ FireSubmit
    \/ FireDebounce
    \/ FirePoll
    \/ AnimationFrame

NextSettle ==
    \/ Browser
    \/ PageRenders
    \/ UserSubmits

\* no callback is waiting to run
NothingDue == NextDue(timers) = 0 /\ raf = <<>>

\* the event loop does not stall: callbacks that are due get run, so that
\* again and again nothing is waiting, and then time goes on
SpecSettle ==
    /\ InitSettle
    /\ [][NextSettle]_vars
    /\ WF_vars(Tick(500, MaxSettleTime))
    /\ []<>NothingDue

\* the page and the user have stopped acting
Idle == now > MaxActiveTime

\* the panel in the document has one row for each query the adapter extracts
Listed == doc # <<>> /\ Len(el[Head(doc)].rows) = CurrentQueries

\* C33: with the tab visible, once the page's extracted query count has
\* stopped changing at a value above the site minimum, the panel in the
\* document eventually lists exactly that many queries.
C33_Convergence == (Idle /\ CurrentQueries > SiteMinimum) ~> Listed

\* C34: with the tab visible, while no panel is in the document and the
\* page's extracted query count stays above the site minimum, a panel is
\* eventually in the document.
C34_PanelAppears == (Idle /\ CurrentQueries > SiteMinimum) ~> (doc # <<>>)

\* the page and the user are idle, and a rebuild asked for by a poll tick
\* after they went idle has put a panel into a document that had none
C34_Witness ==
    /\ Idle
    /\ now > MaxActiveTime + 5000
    /\ CurrentQueries > SiteMinimum
    /\ ev.op = "debounce" /\ ev.create = "executed" /\ ~ev.had
    /\ doc # <<>>

\* nothing is left to do: no timeout is pending, no animation frame is
\* waiting, and the page gives the next poll tick no reason to act - without
\* a panel the count does not exceed the minimum, with one the count is the
\* one recorded or (Gemini's removal aside) does not exceed the minimum
Resting ==
    /\ Pending(timers) = 0
    /\ raf = <<>>
    /\ IF doc = <<>>
       THEN CurrentQueries <= SiteMinimum
       ELSE \/ CurrentQueries = lastQueryCount
            \/ CurrentQueries <= SiteMinimum /\ site # "gemini"

\* C35: with the tab visible and the URL, the page and the user idle, only
\* finitely many rebuilds execute: the system comes to rest, and once at rest
\* it stays there - the page, the panel and (with a panel) the recorded count
\* are as they were, so it is at rest again; no poll tick calls the rebuild
\* callback, no createTOC runs, and the document keeps the panel it has.
C35_Quiescence ==
    /\ <>[]Resting
    /\ [][Idle /\ Resting =>
            /\ Pending(timers)' = 0 /\ raf' = <<>>
            /\ dom' = dom /\ doc' = doc /\ el' = el
            /\ (doc # <<>> => lastQueryCount' = lastQueryCount)
            /\ CallbackNotInvoked
            /\ ev'.create = "none"]_vars

\* the third poll tick after the page and the user went idle has run on a
\* page with queries listed in a panel, and has found nothing to do
C35_Witness ==
    /\ now >= MaxActiveTime + 15000
    /\ ev.op = "poll"
    /\ doc # <<>>
    /\ CurrentQueries > SiteMinimum
    /\ Resting

(***************************************************************************)
(* SpecDrag again: a rebuild while a drag is in progress                   *)
(***************************************************************************)
\* a move or a release of a drag whose panel is no longer in the document
StaleDragStep == (MoveStep \/ ReleaseStep) /\ arg'.id \notin Range(doc)

\* C36: when a rebuild has replaced or removed the panel during a drag, the
\* later moves and the release of that drag leave the panel now in the
\* document where it is, and the release writes nothing to the store; a
\* release writes to the store only the position of the panel in the document.
C36_RebuildDuringDrag ==
    /\ [][StaleDragStep =>
            /\ doc' = doc
            /\ \A j \in Range(doc) :
                   el'[j].left = el[j].left /\ el'[j].top = el[j].top]_vars
    /\ [][StaleDragStep /\ ReleaseStep => storePos' = storePos]_vars
    /\ [][ReleaseStep /\ storePos' # storePos =>
            /\ doc' # <<>>
            /\ storePos' = <<el'[Head(doc')].left, el'[Head(doc')].top>>]_vars

====
